---- MODULE Spec2Model ----
(***************************************************************************)
(* Model of the peer-discovery core of nucypher/network/nodes.py:          *)
(* FleetState, Learner (remember_node, update_fleet_state, teacher         *)
(* selection, learn_from_teacher_node, _adjust_learning) and               *)
(* VerifiableNode (stamp_is_valid, interface_is_valid, validate_metadata,  *)
(* verify_node, save_certificate_to_disk).                                 *)
(* The learning loop (load_seednodes, start_learning_loop,                 *)
(* handle_learning_errors, _crash_gracefully) and the two block_until_     *)
(* helpers are modelled with the seeder thread, the errback and the        *)
(* reactor's deferred call as steps of their own; a block_until_ helper is *)
(* one step per iteration of its loop, with the clock as a step (Tick).    *)
(* start_learning_loop(now=True) is the seeding and the entry of its round *)
(* in one step, the passes of the round, and the start of the task. The    *)
(* variable candidate is a node object outside FleetState on which the     *)
(* checks of VerifiableNode are called directly.                           *)
(* The variable threads holds the calls in progress on threads other than  *)
(* the reactor's: a listener registration inside line 527, a remember_node *)
(* inside its notify loop, and the load_seednodes passes of the thread     *)
(* pool, each advancing statement by statement (SpecListeners,             *)
(* SpecSeeding); the other specifications run these calls as one step.     *)
(*                                                                         *)
(* A node object is a record                                               *)
(*   id   checksum_public_address (0 is the learner's own address)         *)
(*   ts   the signed timestamp of the advertisement                        *)
(*   sig  the interface signature verifies against the claimed signing key *)
(*   ev   identity evidence: "none" (NOT_SIGNED), "good" (recovers to the  *)
(*        address) or "bad" (recovers to another address)                  *)
(*   fed  the node's federated_only attribute                              *)
(*   vs, vi, vn   verified_stamp, verified_interface, _verified_node       *)
(* Each handler is one action, except learn_from_teacher_node, which is    *)
(* three: up to its loop, one pass of the loop, and what follows the loop. *)
(* What a handler returned or raised, and the calls it made on its         *)
(* collaborators, are recorded in the variable last.                       *)
(***************************************************************************)
EXTENDS Integers, Sequences, FiniteSets, TLC

\* ---------------------------------------------------------------- bounds
NumIds == 2
MaxTs == 2
MaxBatch == 2
MaxRounds == 2
MaxListeners == 1
MaxInitNodes == 1
MaxContacts == 4
MaxLoopRounds == 3
MaxSeeds == 1
MaxBootSeeds == 2
MaxSeeders == 2
MaxTimeout == 1
MaxBackoffRounds == 11

\* ------------------------------------------------------ program constants
SHORT_LEARNING_DELAY == 5
LONG_LEARNING_DELAY == 90
ROUNDS_WITHOUT_NODES_AFTER_WHICH_TO_SLOW_DOWN == 10
NoInterval == 0
RETRY_ATTEMPTS == 3
SelfId == 0

Ids == 1..NumIds
AllIds == 0..NumIds
Listeners == 1..MaxListeners

NO_KNOWN_NODES == <<"NO_KNOWN_NODES">>

NoNode == [id |-> 0, ts |-> 0, sig |-> FALSE, ev |-> "none", fed |-> FALSE,
           vs |-> FALSE, vi |-> FALSE, vn |-> FALSE]

VARIABLES
    federated_only,            \* Learner.federated_only (set by the subclass)
    known_nodes,               \* FleetState: address -> node object, NoNode when absent
    order,                     \* the dict's key order (insertion order)
    checksum,                  \* FleetState._checksum
    nickname,                  \* FleetState._nickname
    learning_listeners,        \* _learning_listeners: address -> list of listeners
    wanted,                    \* _node_ids_to_learn_about_immediately
    teacher_nodes,             \* deque of teachers (by address)
    current_teacher_node,      \* _current_teacher_node (0 = None)
    learning_round,            \* _learning_round
    rounds_without_new_nodes,  \* _rounds_without_new_nodes
    interval,                  \* _learning_task.interval
    running,                   \* _learning_task.running
    pc,                        \* "idle", "learning" (inside the loop of a round),
                               \* "starting", "errback" or "waiting"
    round,                     \* the locals of the round in progress
    last,                      \* the last handler call: its inputs, outcome and calls made
    abort_on_learning_error,   \* _abort_on_learning_error
    seed_nodes,                \* _seed_nodes: the configured seeds (by address)
    seed_answers,              \* the network: what each seed host does when contacted
    done_seeding,              \* done_seeding
    unresponsive_seed_nodes,   \* unresponsive_seed_nodes
    contacts,                  \* how often each seed host has been contacted so far
    crashed,                   \* _crashed ("unset" until something assigns it)
    pending,                   \* calls the reactor still has to make
    waiter,                    \* the frame of a caller inside a block_until_ helper
    candidate,                 \* a node object a caller holds (NoNode: none yet)
    threads                    \* the calls in progress on threads other than the reactor's

vars == <<federated_only, known_nodes, order, checksum, nickname, learning_listeners,
          wanted, teacher_nodes, current_teacher_node, learning_round,
          rounds_without_new_nodes, interval, running, pc, round, last,
          abort_on_learning_error, seed_nodes, seed_answers, done_seeding,
          unresponsive_seed_nodes, contacts, crashed, pending, waiter,
          candidate, threads>>

\* What the constructor fixes, and what only the loop's own handlers touch.
config == <<federated_only, abort_on_learning_error, seed_nodes>>
loop_state == <<seed_answers, crashed, pending, waiter>>
\* What a block_until_ helper only reads.
learner == <<known_nodes, order, checksum, nickname, learning_listeners, wanted,
             teacher_nodes, current_teacher_node, learning_round,
             rounds_without_new_nodes, interval, running, round,
             done_seeding, unresponsive_seed_nodes, contacts,
             seed_answers, crashed, pending>>

\* ------------------------------------------------------------- sequences
Range(s) == {s[i] : i \in 1..Len(s)}

RECURSIVE Insert(_, _)
Insert(x, s) ==
    IF s = <<>> THEN <<x>>
    ELSE IF x <= Head(s) THEN <<x>> \o s
    ELSE <<Head(s)>> \o Insert(x, Tail(s))

RECURSIVE SortedByAddress(_)
SortedByAddress(s) ==
    IF s = <<>> THEN <<>> ELSE Insert(Head(s), SortedByAddress(Tail(s)))

RECURSIVE Flatten(_)
Flatten(ss) == IF ss = <<>> THEN <<>> ELSE Head(ss) \o Flatten(Tail(ss))

RECURSIVE AscendingSeq(_)
AscendingSeq(S) ==
    IF S = {} THEN <<>>
    ELSE LET m == CHOOSE x \in S : \A y \in S : x <= y
         IN <<m>> \o AscendingSeq(S \ {m})

\* ------------------------------------------------------------ FleetState
Known(kn) == {i \in AllIds : kn[i] # NoNode}

\* bytes(node): the advertisement, without the verification flags
NodeBytes(n) == <<n.id, n.ts, n.ev, n.sig>>

\* keccak_digest(...).hex(), taken as injective on the digested bytes
keccak_digest(bytes) == <<"keccak">> \o bytes

nickname_from_seed(c) == <<"nickname">> \o c

sorted_nodes_unsorted(kn, ord) == ord

sorted_nodes(kn, ord) == SortedByAddress(ord)

fleet_checksum(kn, ord) ==
    LET sn == sorted_nodes(kn, ord)
    IN keccak_digest(Flatten([i \in 1..Len(sn) |-> NodeBytes(kn[sn[i]])]))

\* ------------------------------------------------------- VerifiableNode
stamp_has_valid_wallet_signature(n) == n.ev = "good"

stamp_is_valid_wrong_mode_for_all(n) ==
    IF stamp_has_valid_wallet_signature(n)
    THEN [node |-> [n EXCEPT !.vs = TRUE], out |-> "True"]
    ELSE IF n.ev = "none"
    THEN [node |-> n, out |-> "WrongMode"]
    ELSE [node |-> n, out |-> "InvalidNode"]

stamp_is_valid(n) ==
    IF stamp_has_valid_wallet_signature(n)
    THEN [node |-> [n EXCEPT !.vs = TRUE], out |-> "True"]
    ELSE IF n.fed /\ n.ev = "none"
    THEN [node |-> n, out |-> "WrongMode"]
    ELSE [node |-> n, out |-> "InvalidNode"]

interface_is_valid_rechecked_as_bad(n) ==
    [node |-> [n EXCEPT !.vi = n.sig /\ ~n.vi],
     out  |-> IF n.sig THEN "True" ELSE "InvalidNode"]

interface_is_valid(n) ==
    [node |-> [n EXCEPT !.vi = n.sig],
     out  |-> IF n.sig THEN "True" ELSE "InvalidNode"]

validate_metadata(n, accept_federated_only) ==
    LET a == IF ~n.vi THEN interface_is_valid(n) ELSE [node |-> n, out |-> "True"]
    IN  IF a.out # "True" THEN a
        ELSE IF ~a.node.vs
        THEN LET b == stamp_is_valid(a.node)
             IN  IF b.out = "WrongMode" /\ ~accept_federated_only
                 THEN b
                 ELSE IF b.out = "InvalidNode" THEN b
                 ELSE [node |-> b.node, out |-> "None"]
        ELSE [node |-> a.node, out |-> "None"]

\* What network_middleware.node_information does for one request.
TransportFailures == {"ConnectionError", "ReadTimeout", "SSLError"}
LiveMismatches == {"verifying_key", "encrypting_key", "public_address", "identity_evidence"}
Responses == TransportFailures \cup {"status_500", "match"} \cup LiveMismatches

verifying_keys_match(resp) == resp # "verifying_key"
encrypting_keys_match(resp) == resp # "encrypting_key"
addresses_match(resp) == resp # "public_address"
evidence_matches(resp) == resp # "identity_evidence"

liveness_check_trusting_key(n, resp) ==
    IF resp \in TransportFailures
    THEN [node |-> n, out |-> resp, requested |-> TRUE]
    ELSE IF resp = "status_500"
    THEN [node |-> n, out |-> "RuntimeError", requested |-> TRUE]
    ELSE IF ~(encrypting_keys_match(resp)
              /\ addresses_match(resp) /\ evidence_matches(resp))
    THEN [node |-> n, out |-> "InvalidNode", requested |-> TRUE]
    ELSE [node |-> [n EXCEPT !.vn = TRUE], out |-> "None", requested |-> TRUE]

\* Lines 762-787: the live round trip and the cross-check of its answer.
\* node, out (None or the exception raised), requested (a request was sent)
liveness_check(n, resp) ==
    IF resp \in TransportFailures
    THEN [node |-> n, out |-> resp, requested |-> TRUE]
    ELSE IF resp = "status_500"
    THEN [node |-> n, out |-> "RuntimeError", requested |-> TRUE]
    ELSE IF ~(encrypting_keys_match(resp) /\ verifying_keys_match(resp)
              /\ addresses_match(resp) /\ evidence_matches(resp))
    THEN [node |-> n, out |-> "InvalidNode", requested |-> TRUE]
    ELSE [node |-> [n EXCEPT !.vn = TRUE], out |-> "None", requested |-> TRUE]

verify_node_again(n, resp, accept_federated_only, force) ==
    LET m == validate_metadata(n, accept_federated_only)
    IN  IF m.out # "None"
        THEN [node |-> m.node, out |-> m.out, requested |-> FALSE]
        ELSE liveness_check(m.node, resp)

verify_node(n, resp, accept_federated_only, force) ==
    IF ~force /\ n.vn
    THEN [node |-> n, out |-> "True", requested |-> FALSE]
    ELSE LET m == validate_metadata(n, accept_federated_only)
         IN  IF m.out # "None"
             THEN [node |-> m.node, out |-> m.out, requested |-> FALSE]
             ELSE liveness_check(m.node, resp)

\* --------------------------------------------------------------- Learner
\* The Learner's fields as one record, with the outcome of the call in progress:
\* out is what it returned or raised, events the calls it made.
Me ==
    [federated_only |-> federated_only,
     known_nodes |-> known_nodes, order |-> order, checksum |-> checksum,
     nickname |-> nickname, learning_listeners |-> learning_listeners,
     wanted |-> wanted,
     teacher_nodes |-> teacher_nodes, current_teacher_node |-> current_teacher_node,
     learning_round |-> learning_round,
     rounds_without_new_nodes |-> rounds_without_new_nodes,
     interval |-> interval,
     new_nodes |-> round.new_nodes, suspicious |-> round.suspicious,
     admitted |-> round.admitted, cand |-> NoNode,
     seed_nodes |-> seed_nodes, seed_answers |-> seed_answers,
     done_seeding |-> done_seeding,
     unresponsive_seed_nodes |-> unresponsive_seed_nodes, contacts |-> contacts,
     out |-> "None", events |-> <<>>]

Commit(S) ==
    /\ known_nodes' = S.known_nodes
    /\ order' = S.order
    /\ checksum' = S.checksum
    /\ nickname' = S.nickname
    /\ learning_listeners' = S.learning_listeners
    /\ wanted' = S.wanted
    /\ teacher_nodes' = S.teacher_nodes
    /\ current_teacher_node' = S.current_teacher_node
    /\ learning_round' = S.learning_round
    /\ rounds_without_new_nodes' = S.rounds_without_new_nodes
    /\ interval' = S.interval
    /\ done_seeding' = S.done_seeding
    /\ unresponsive_seed_nodes' = S.unresponsive_seed_nodes
    /\ contacts' = S.contacts

Event(name, i, id, x) == <<name, i, id, x>>

update_fleet_state(S) ==
    LET c == fleet_checksum(S.known_nodes, S.order)
    IN  [S EXCEPT !.checksum = c, !.nickname = nickname_from_seed(c)]

save_certificate_to_disk(S, node, i) ==
    [S EXCEPT !.events = Append(@, Event("cert_write", i, node.id, node.ts))]

\* Lines 286-303: the record is stored, its listeners are popped and notified, and
\* line 301 calls update_fleet_stfate, an attribute no Learner has.
store_node_keeping_listeners(S, node, i, update_fleet_state_flag) ==
    LET address == node.id
        listeners == S.learning_listeners[address]
        S1 == [S EXCEPT
                 !.admitted = @ + 1,
                 !.known_nodes[address] = node,
                 !.order = IF address \in Range(@) THEN @ ELSE Append(@, address),
                 !.wanted = @ \ {address},
                 !.events = @ \o <<Event("store", i, address, update_fleet_state_flag)>>
                              \o [k \in 1..Len(listeners) |->
                                     Event("notify", i, address, listeners[k])]]
    IN  IF update_fleet_state_flag
        THEN [S1 EXCEPT !.out = "AttributeError"]
        ELSE [S1 EXCEPT !.out = "True"]

store_node(S, node, i, update_fleet_state_flag) ==
    LET address == node.id
        listeners == S.learning_listeners[address]
        S1 == [S EXCEPT
                 !.admitted = @ + 1,
                 !.learning_listeners[address] = <<>>,
                 !.known_nodes[address] = node,
                 !.order = IF address \in Range(@) THEN @ ELSE Append(@, address),
                 !.wanted = @ \ {address},
                 !.events = @ \o <<Event("store", i, address, update_fleet_state_flag)>>
                              \o [k \in 1..Len(listeners) |->
                                     Event("notify", i, address, listeners[k])]]
    IN  IF update_fleet_state_flag
        THEN [S1 EXCEPT !.out = "AttributeError"]
        ELSE [S1 EXCEPT !.out = "True"]

is_outdated_only_if_older(node, already_known_node) ==
    ~(node.ts >= already_known_node.ts)

is_outdated(node, already_known_node) == ~(node.ts > already_known_node.ts)

\* Lines 279-303: what remember_node does with the outcome v of verify_node.
store_verified(S1, v, known, node, i, update_fleet_state_flag, resp) ==
    LET S2 == [S1 EXCEPT !.cand = v.node, !.events =
                  @ \o (IF v.requested
                        THEN <<Event("node_information", i, node.id, resp)>>
                        ELSE <<>>)
                    \o <<Event("verify_node", i, node.id, v.out)>>]
    IN  IF v.out = "SSLError" THEN [S2 EXCEPT !.out = "False"]
        ELSE IF v.out \in {"ConnectionError", "ReadTimeout"}
        THEN [S2 EXCEPT !.out = IF known THEN "False" ELSE "UnboundLocalError"]
        ELSE IF v.out \in {"InvalidNode", "WrongMode", "RuntimeError"}
        THEN [S2 EXCEPT !.out = v.out]
        ELSE store_node(S2, v.node, i, update_fleet_state_flag)

\* Lines 272-303, after the self and outdated checks.
verify_and_store(S, node, i, force_verification_check, update_fleet_state_flag, resp) ==
    store_verified(save_certificate_to_disk(S, node, i),
                   verify_node(node, resp, S.federated_only, force_verification_check),
                   S.known_nodes[node.id] # NoNode,
                   node, i, update_fleet_state_flag, resp)

remember_node_also_self(S, node, i, force_verification_check, update_fleet_state_flag, resp) ==
    IF S.known_nodes[node.id] # NoNode
       /\ is_outdated(node, S.known_nodes[node.id])
    THEN [S EXCEPT !.out = "False", !.cand = node]
    ELSE verify_and_store(S, node, i, force_verification_check,
                          update_fleet_state_flag, resp)

remember_node(S, node, i, force_verification_check, update_fleet_state_flag, resp) ==
    IF node.id = SelfId THEN [S EXCEPT !.out = "False", !.cand = node]
    ELSE IF S.known_nodes[node.id] # NoNode
            /\ is_outdated(node, S.known_nodes[node.id])
    THEN [S EXCEPT !.out = "False", !.cand = node]
    ELSE verify_and_store(S, node, i, force_verification_check,
                          update_fleet_state_flag, resp)

\* ---------------------------------------------------------------- seeding
\* What a seed host does when contacted: get_certificate fails ("ConnectionError"),
\* node_information answers with status "500", or with status "200" and the bytes
\* of node, whose later live check is answered with resp.
SeedAnswer(status, node, resp) == [status |-> status, node |-> node, resp |-> resp]

\* Lines 905-922, with the node built from the answer of line 934.
seed_verified(seed, potential_seed_node, v) ==
    IF potential_seed_node.id # seed
    THEN [node |-> potential_seed_node, out |-> "SuspiciousActivity"]
    ELSE [node |-> v.node, out |-> IF v.out \in {"None", "True"} THEN "node" ELSE v.out]

\* Lines 873-922 and 925-939: from_seednode_metadata returns the verified node or
\* raises; it has no path that returns False.
from_seed_and_stake_info(seed, answer, federated_only_flag) ==
    IF answer.status = "ConnectionError"
    THEN [node |-> NoNode, out |-> "ConnectionError"]
    ELSE IF answer.status # "200"
    THEN [node |-> NoNode, out |-> "RuntimeError"]
    ELSE seed_verified(seed, answer.node,
                       verify_node(answer.node, answer.resp, federated_only_flag, FALSE))

\* Lines 227-231, with the outcome r of from_seednode_metadata.
seed_attempted(S, seed, r) ==
    IF r.out = "False"
    THEN [S EXCEPT !.unresponsive_seed_nodes = @ \cup {seed}]
    ELSE IF r.out # "node"
    THEN [S EXCEPT !.out = r.out]
    ELSE remember_node([S EXCEPT !.unresponsive_seed_nodes = @ \ {seed}],
                       r.node, 0, FALSE, TRUE, S.seed_answers[seed].resp)

\* Lines 214-231: one contact of one seed.
attempt_seednode_learning(S, seed) ==
    seed_attempted([S EXCEPT !.contacts[seed] = @ + 1,
                             !.events = Append(@, Event("seeding_from", 0, seed, 0))],
                   seed,
                   from_seed_and_stake_info(seed, S.seed_answers[seed], S.federated_only))

\* Lines 233-234: the seeds in order; an exception ends the pass.
RECURSIVE seed_pass(_, _)
seed_pass(S, i) ==
    IF i > Len(S.seed_nodes) \/ S.out \notin {"None", "True", "False"}
    THEN S
    ELSE seed_pass(attempt_seednode_learning([S EXCEPT !.out = "None"], S.seed_nodes[i]),
                   i + 1)

\* Lines 236-247: the storage (InMemoryNodeStorage, nothing saved) holds no node.
seeding_done(S) ==
    IF S.out \notin {"None", "True", "False"} THEN S
    ELSE [S EXCEPT !.out = "None", !.done_seeding = TRUE]

\* Lines 201-247
load_seednodes(S) ==
    IF S.done_seeding THEN S ELSE seeding_done(seed_pass(S, 1))

\* ------------------------------------------------------ teacher selection
select_teacher_nodes_unfiltered(S, shuffle) ==
    [S EXCEPT !.teacher_nodes = @ \o shuffle]

\* shuffle: the order random.shuffle leaves the addresses in
select_teacher_nodes(S, shuffle) ==
    LET nodes_we_know_about == SelectSeq(shuffle, LAMBDA a : S.known_nodes[a] # NoNode)
    IN  IF nodes_we_know_about = <<>>
        THEN [S EXCEPT !.out = "NotEnoughTeachers"]
        ELSE [S EXCEPT !.teacher_nodes = @ \o nodes_we_know_about]

\* Lines 379-387: the queue is refilled when empty, and its right end popped.
pop_teacher(S1) ==
    IF S1.out # "None" THEN S1
    ELSE [S1 EXCEPT
            !.current_teacher_node = S1.teacher_nodes[Len(S1.teacher_nodes)],
            !.teacher_nodes = SubSeq(@, 1, Len(@) - 1),
            !.events = Append(@, Event("cycle_teacher_node", 0,
                              S1.teacher_nodes[Len(S1.teacher_nodes)], 0))]

refill_and_pop(S0, shuffle) ==
    IF S0.out # "None" THEN S0
    ELSE pop_teacher(IF S0.teacher_nodes = <<>>
                     THEN select_teacher_nodes(S0, shuffle) ELSE S0)

\* Lines 371-387
cycle_teacher_node(S, shuffle) ==
    refill_and_pop(IF S.unresponsive_seed_nodes # {} THEN load_seednodes(S) ELSE S,
                   shuffle)

current_teacher_node_of(S, shuffle) ==
    IF S.current_teacher_node = 0 THEN cycle_teacher_node(S, shuffle) ELSE S

\* ----------------------------------------------------------- the backoff
adjust_learning(S, node_list) ==
    IF node_list # <<>>
    THEN [S EXCEPT !.rounds_without_new_nodes = 0,
                   !.interval = SHORT_LEARNING_DELAY,
                   !.events = Append(@, Event("adjust_learning", 0, 0, Len(node_list)))]
    ELSE LET n == S.rounds_without_new_nodes + 1
         IN  [S EXCEPT !.rounds_without_new_nodes = n,
                       !.interval =
                           IF n > ROUNDS_WITHOUT_NODES_AFTER_WHICH_TO_SLOW_DOWN
                           THEN LONG_LEARNING_DELAY ELSE @,
                       !.events = Append(@, Event("adjust_learning", 0, 0, 0))]

\* ------------------------------------------------------ one learning round
\* What network_middleware.get_nodes_via_rest does for the peer-list request.
PeerListOutcomes == {"ok", "ConnectionError", "ConnectTimeout", "ReadTimeout", "status_500"}

\* Lines 591-592 left out: the batch of any response is parsed.
asked_ignoring_status(T1, current_teacher, transport, shuffle) ==
    IF transport \in {"ConnectionError", "ConnectTimeout"}
    THEN cycle_teacher_node(
             [T1 EXCEPT !.events =
                 Append(@, Event("unresponsive", 0, current_teacher, 0))],
             shuffle)
    ELSE IF transport = "ReadTimeout"
    THEN [T1 EXCEPT !.out = "ReadTimeout"]
    ELSE [T1 EXCEPT !.out = "loop"]

asked_forgetting_teacher(T1, current_teacher, transport, shuffle) ==
    IF transport \in {"ConnectionError", "ConnectTimeout"}
    THEN cycle_teacher_node(
             [T1 EXCEPT !.known_nodes[current_teacher] = NoNode,
                        !.events =
                 Append(@, Event("unresponsive", 0, current_teacher, 0))],
             shuffle)
    ELSE IF transport = "ReadTimeout"
    THEN [T1 EXCEPT !.out = "ReadTimeout"]
    ELSE IF transport = "status_500"
    THEN [T1 EXCEPT !.out = "RuntimeError"]
    ELSE [T1 EXCEPT !.out = "loop"]

\* Lines 581-592: what follows the request. ConnectionError (ConnectTimeout is
\* one) is caught: the teacher goes into the local set unresponsive_nodes, the
\* next teacher is cycled in and the round returns. ReadTimeout is no
\* ConnectionError and leaves the round. A status other than 200 raises.
asked(T1, current_teacher, transport, shuffle) ==
    IF transport \in {"ConnectionError", "ConnectTimeout"}
    THEN cycle_teacher_node(
             [T1 EXCEPT !.events =
                 Append(@, Event("unresponsive", 0, current_teacher, 0))],
             shuffle)
    ELSE IF transport = "ReadTimeout"
    THEN [T1 EXCEPT !.out = "ReadTimeout"]
    ELSE IF transport = "status_500"
    THEN [T1 EXCEPT !.out = "RuntimeError"]
    ELSE [T1 EXCEPT !.out = "loop"]

\* Lines 571-592: the peer-list request to the current teacher and its outcome.
get_nodes_via_rest(T, current_teacher, transport, shuffle) ==
    asked([T EXCEPT !.events =
              Append(@, Event("get_nodes_via_rest", 0, current_teacher, 0))],
          current_teacher, transport, shuffle)

begin_round_counting_late(S, transport, shuffle) ==
    LET S0 == [S EXCEPT !.new_nodes = <<>>, !.suspicious = 0, !.admitted = 0]
        T  == current_teacher_node_of(S0, shuffle)
    IN  IF T.out = "NotEnoughTeachers"
        THEN [T EXCEPT !.out = "None",
                       !.events = Append(@, Event("NotEnoughTeachers", 0, 0, 0))]
        ELSE IF T.out # "None" THEN T
        ELSE
          get_nodes_via_rest([T EXCEPT !.learning_round = @ + 1],
                             T.current_teacher_node, transport, shuffle)

begin_round_feeding_backoff(S, transport, shuffle) ==
    LET S0 == [S EXCEPT !.learning_round = @ + 1,
                        !.new_nodes = <<>>, !.suspicious = 0, !.admitted = 0]
        T  == current_teacher_node_of(S0, shuffle)
    IN  IF T.out = "NotEnoughTeachers"
        THEN [adjust_learning(T, <<>>) EXCEPT
                       !.out = "None",
                       !.events = Append(@, Event("NotEnoughTeachers", 0, 0, 0))]
        ELSE IF T.out # "None" THEN T
        ELSE
          get_nodes_via_rest(IF transport = "ConnectionError"
                             THEN adjust_learning(T, <<>>) ELSE T,
                             T.current_teacher_node, transport, shuffle)

\* Lines 553-598: the round counter, the teacher, the peer-list request.
\* out = "loop": the batch was parsed and the loop over it starts.
begin_round(S, transport, shuffle) ==
    LET S0 == [S EXCEPT !.learning_round = @ + 1,
                        !.new_nodes = <<>>, !.suspicious = 0, !.admitted = 0]
        T  == current_teacher_node_of(S0, shuffle)
    IN  IF T.out = "NotEnoughTeachers"
        THEN [T EXCEPT !.out = "None",
                       !.events = Append(@, Event("NotEnoughTeachers", 0, 0, 0))]
        ELSE IF T.out # "None" THEN T
        ELSE
          get_nodes_via_rest(T, T.current_teacher_node, transport, shuffle)

\* Lines 602-613: the check the loop runs on a candidate, eager or lazy.
check_candidate(S, eager, node, resp) ==
    IF eager
    THEN verify_node(node, resp, S.federated_only, FALSE)
    ELSE LET m == validate_metadata(node, S.federated_only)
         IN  [node |-> m.node, out |-> m.out, requested |-> FALSE]

\* Lines 615-620: the except clause logs a suspicious candidate and goes on.
note_check(S, c, eager, node, resp, i) ==
    [S EXCEPT
       !.cand = c.node,
       !.suspicious = IF c.out = "InvalidNode" THEN @ + 1 ELSE @,
       !.events =
          @ \o (IF c.requested
                THEN <<Event("node_information", i, node.id, resp)>>
                ELSE <<>>)
            \o <<Event(IF eager THEN "verify_node" ELSE "validate_metadata",
                       i, node.id, c.out)>>]

\* Lines 621-623: new_nodes grows when remember_node returned True.
after_remember(r, c, node, i) ==
    IF r.out = "True"
    THEN [r EXCEPT !.out = "loop", !.new_nodes = Append(@, c.node.id),
                   !.events = Append(@, Event("remember_node", i, node.id, "True"))]
    ELSE IF r.out = "False"
    THEN [r EXCEPT !.out = "loop",
                   !.events = Append(@, Event("remember_node", i, node.id, "False"))]
    ELSE [r EXCEPT !.events = Append(@, Event("remember_node", i, node.id, r.out))]

learn_checked(S1, c, node, resp, i) ==
    IF c.out \notin {"None", "True", "InvalidNode"}
    THEN [S1 EXCEPT !.out = c.out]
    ELSE after_remember(remember_node(S1, c.node, i, FALSE, TRUE, resp), c, node, i)

learn_noted(S, c, eager, node, resp, i) ==
    learn_checked(note_check(S, c, eager, node, resp, i), c, node, resp, i)

\* Lines 601-623: one pass of the loop, for candidate number i of the batch.
\* out = "loop": the loop goes on; anything else left the round as an exception.
learn_candidate(S, eager, node, resp, i) ==
    learn_noted(S, check_candidate(S, eager, node, resp), eager, node, resp, i)

RECURSIVE save_new_certificates(_, _)
save_new_certificates(S, nodes) ==
    IF nodes = <<>> THEN S
    ELSE save_new_certificates(
             save_certificate_to_disk(S, S.known_nodes[Head(nodes)], 0), Tail(nodes))

\* Lines 625-639: the backoff, the teacher rotation, the certificates.
finish_round(S, shuffle) ==
    LET A == adjust_learning(S, S.new_nodes)
        C == cycle_teacher_node(A, shuffle)
        D == save_new_certificates(C, C.new_nodes)
    IN  IF C.out # "None" THEN C ELSE [D EXCEPT !.out = "new_nodes"]

\* ------------------------------------------------------------------ inputs
Fresh(id, ts, sig, ev, fed) ==
    [id |-> id, ts |-> ts, sig |-> sig, ev |-> ev, fed |-> fed,
     vs |-> FALSE, vi |-> FALSE, vn |-> FALSE]

Evidence == {"none", "good", "bad"}

\* Node objects as deserialization leaves them.
Advertisements(ids, sigs, evs, feds) ==
    {Fresh(id, ts, sig, ev, fed) :
        id \in ids, ts \in 1..MaxTs, sig \in sigs, ev \in evs, fed \in feds}

\* Node objects another component has verified before handing them over.
Verified(ids, evs, fo) ==
    {[n EXCEPT !.vi = TRUE, !.vs = (n.ev = "good"), !.vn = TRUE] :
        n \in {m \in Advertisements(ids, {TRUE}, evs, {fo}) :
                  m.ev = "good" \/ (m.ev = "none" /\ fo)}}

Shuffles == {s \in [1..NumIds -> Ids] : \A i, j \in 1..NumIds : s[i] = s[j] => i = j}

\* new_nodes is the round's local list; processed, suspicious and admitted count the
\* candidates the loop has taken, those whose check raised InvalidNode, and those
\* remember_node stored.
\* caller is the handler that entered the round, teacher the address the round's
\* peer-list request went to (0: no request), failure what the round raised.
NoRound == [eager |-> FALSE, starting_round |-> 0, new_nodes |-> <<>>,
            processed |-> 0, suspicious |-> 0, admitted |-> 0,
            caller |-> "None", teacher |-> 0, failure |-> "None"]

\* cand: the node object the call was given, as the call left it
Call(op, args, S) ==
    [op |-> op, args |-> args, out |-> S.out, events |-> S.events, cand |-> S.cand]

\* ----------------------------------------------------------- construction
NoAnswer == SeedAnswer("ConnectionError", NoNode, "match")

\* seeder: deferToThread(load_seednodes) has not run yet; crash: the failures
\* handed to reactor.callFromThread(_crash_gracefully) and not yet called.
NoPending == [seeder |-> FALSE, crash |-> <<>>]

\* push: a caller inside line 527, between the subscript and the append; list
\* says which list object the subscript gave it: the one now in the registry
\* ("registry"), the one a remember_node has popped and not yet finished with
\* ("popped"), or one nobody reads any more ("dropped").
NoPush == [queue |-> 0, address |-> 0, list |-> "none"]

\* merge: a remember_node between the pop of line 286 and the end of the loop of
\* lines 296-297: the list it popped, the index of the listener the iterator
\* gives next, and what the call ends with.
NoMerge == [address |-> 0, listeners |-> <<>>, next |-> 0, out |-> "None"]

\* seeders: the load_seednodes calls in progress in the thread pool (line 320),
\* each with the index of its next seed and its position. registered and
\* notified: the <<queue, address>> pairs whose append of line 527 and whose
\* listener.add of line 297 have been executed.
NoThreads ==
    [push |-> NoPush, merge |-> NoMerge, seeders |-> <<>>,
     registered |-> {}, notified |-> {}]

\* Nobody is inside a block_until_ helper. elapsed: (maya.now() - start).seconds
NoWaiter ==
    [op |-> "None", number_of_nodes_to_know |-> 0, canonical_addresses |-> {},
     timeout |-> 0, allow_missing |-> 0, learn_on_this_thread |-> FALSE,
     elapsed |-> 0, starting_round |-> 0]

\* Lines 178-184: the constructor remembers known_nodes with update_fleet_state=False.
RECURSIVE remember_known_nodes(_, _, _, _)
remember_known_nodes(S, nodes, resps, i) ==
    IF i > Len(nodes) THEN S
    ELSE LET r == remember_node(S, nodes[i], i, FALSE, FALSE, resps[i])
         IN  IF r.out \in {"True", "False"}
             THEN remember_known_nodes([r EXCEPT !.out = "None"], nodes, resps, i + 1)
             ELSE r

Fields0(fo) ==
    [federated_only |-> fo,
     known_nodes |-> [i \in AllIds |-> NoNode], order |-> <<>>,
     checksum |-> NO_KNOWN_NODES, nickname |-> NO_KNOWN_NODES,
     learning_listeners |-> [i \in AllIds |-> <<>>],
     wanted |-> {},
     teacher_nodes |-> <<>>, current_teacher_node |-> 0,
     learning_round |-> 0, rounds_without_new_nodes |-> 0,
     interval |-> NoInterval, new_nodes |-> <<>>, suspicious |-> 0,
     admitted |-> 0, cand |-> NoNode,
     seed_nodes |-> <<>>, seed_answers |-> [i \in Ids |-> NoAnswer],
     done_seeding |-> FALSE, unresponsive_seed_nodes |-> {},
     contacts |-> [i \in Ids |-> 0],
     out |-> "None", events |-> <<>>]

\* The state __init__ leaves when it returns: start_learning_now starts the task
\* at the short delay (start_learning_loop, no seed nodes, empty storage).
ConstructedWith(fo, start_learning_now, nodes, resps, seeds, answers, abort) ==
    LET S == remember_known_nodes(Fields0(fo), nodes, resps, 1)
    IN  /\ S.out = "None"
        /\ federated_only = fo
        /\ known_nodes = S.known_nodes
        /\ order = S.order
        /\ checksum = S.checksum
        /\ nickname = S.nickname
        /\ learning_listeners = S.learning_listeners
        /\ wanted = S.wanted
        /\ teacher_nodes = S.teacher_nodes
        /\ current_teacher_node = S.current_teacher_node
        /\ learning_round = 0
        /\ rounds_without_new_nodes = 0
        /\ interval = IF start_learning_now THEN SHORT_LEARNING_DELAY ELSE NoInterval
        /\ running = start_learning_now
        /\ pc = "idle"
        /\ round = NoRound
        /\ last = [op |-> "__init__", args |-> [nodes |-> Len(nodes)],
                   out |-> "None", events |-> S.events, cand |-> NoNode]
        /\ abort_on_learning_error = abort
        /\ seed_nodes = seeds
        /\ seed_answers = answers
        /\ done_seeding = FALSE
        /\ unresponsive_seed_nodes = {}
        /\ contacts = [i \in Ids |-> 0]
        /\ crashed = "unset"
        /\ pending = [NoPending EXCEPT !.seeder = start_learning_now]
        /\ waiter = NoWaiter
        /\ candidate = NoNode
        /\ threads = NoThreads

\* No seeds, the resume policy.
Constructed(fo, start_learning_now, nodes, resps) ==
    ConstructedWith(fo, start_learning_now, nodes, resps,
                    <<>>, [i \in Ids |-> NoAnswer], FALSE)

\* ---------------------------------------------------------------- actions
RememberNode(node, force, ufs, resp) ==
    /\ pc = "idle"
    /\ LET R == remember_node(Me, node, 0, force, ufs, resp)
       IN  /\ Commit(R)
           /\ last' = Call("remember_node",
                           [node |-> node, force |-> force], R)
    /\ UNCHANGED <<config, candidate, threads, loop_state, running, pc, round>>

VerifyNode(a, force, resp) ==
    /\ pc = "idle"
    /\ known_nodes[a] # NoNode
    /\ LET v == verify_node(known_nodes[a], resp, federated_only, force)
       IN  /\ known_nodes' = [known_nodes EXCEPT ![a] = v.node]
           /\ last' = [op |-> "verify_node",
                       args |-> [node |-> known_nodes[a], force |-> force],
                       out |-> v.out,
                       events |-> IF v.requested
                                  THEN <<Event("node_information", 0, a, resp)>>
                                  ELSE <<>>,
                       cand |-> v.node]
    /\ UNCHANGED <<config, candidate, threads, loop_state, order, checksum, nickname, learning_listeners,
                   wanted, teacher_nodes, current_teacher_node,
                   learning_round, rounds_without_new_nodes, interval, running,
                   pc, round, done_seeding, unresponsive_seed_nodes, contacts>>

\* The methods of VerifiableNode, called on a node object that is in no
\* FleetState: what batch_from_bytes or a caller of the Learner holds.
NodeCall(op, n, accept_federated_only, force, r) ==
    /\ candidate' = r.node
    /\ last' = [op |-> op,
                args |-> [node |-> n, accept_federated_only |-> accept_federated_only,
                          force |-> force],
                out |-> r.out, events |-> <<>>, cand |-> r.node]
    /\ UNCHANGED <<config, threads, learner, pc, waiter>>

\* Lines 644-646 and 650-661: a new node object has the class defaults as flags.
NewNode(node) ==
    /\ pc = "idle"
    /\ NodeCall("__init__", node, FALSE, FALSE, [node |-> node, out |-> "None"])

StampIsValid ==
    /\ pc = "idle"
    /\ candidate # NoNode
    /\ NodeCall("stamp_is_valid", candidate, FALSE, FALSE, stamp_is_valid(candidate))

InterfaceIsValid ==
    /\ pc = "idle"
    /\ candidate # NoNode
    /\ NodeCall("interface_is_valid", candidate, FALSE, FALSE,
                interface_is_valid(candidate))

ValidateMetadata(accept_federated_only) ==
    /\ pc = "idle"
    /\ candidate # NoNode
    /\ NodeCall("validate_metadata", candidate, accept_federated_only, FALSE,
                validate_metadata(candidate, accept_federated_only))

VerifyCandidate(resp, accept_federated_only, force) ==
    /\ pc = "idle"
    /\ candidate # NoNode
    /\ NodeCall("verify_node", candidate, accept_federated_only, force,
                verify_node(candidate, resp, accept_federated_only, force))

UpdateFleetState ==
    /\ pc = "idle"
    /\ LET R == update_fleet_state(Me)
       IN  /\ Commit(R)
           /\ last' = Call("update_fleet_state", [none |-> 0], R)
    /\ UNCHANGED <<config, candidate, threads, loop_state, running, pc, round>>

\* Lines 520-527
PushCertainNewlyDiscoveredNodesHere(queue_to_push, node_addresses) ==
    /\ pc = "idle"
    /\ \A a \in node_addresses : Len(learning_listeners[a]) < MaxListeners
    /\ learning_listeners' =
          [a \in AllIds |-> IF a \in node_addresses
                            THEN Append(learning_listeners[a], queue_to_push)
                            ELSE learning_listeners[a]]
    /\ last' = [op |-> "_push_certain_newly_discovered_nodes_here",
                args |-> [queue |-> queue_to_push, addresses |-> node_addresses],
                out |-> "None", events |-> <<>>, cand |-> NoNode]
    /\ UNCHANGED <<config, candidate, threads, loop_state, known_nodes, order, checksum, nickname, wanted,
                   teacher_nodes, current_teacher_node, learning_round,
                   rounds_without_new_nodes, interval, running, pc, round,
                   done_seeding, unresponsive_seed_nodes, contacts>>

\* ------------------------------------------- registration against the merge
\* Line 527 is two operations, and remember_node's lines 286-298 several: seen
\* from another thread, each of the following is one step. No lock is held
\* around any of them.

\* Line 527, the subscript: _learning_listeners is a defaultdict, so
\* self._learning_listeners[node_address] gives the list stored under the
\* address, storing an empty one first when there is none.
PushLookup(queue_to_push, node_address) ==
    /\ threads.push = NoPush
    /\ <<queue_to_push, node_address>> \notin threads.registered
    /\ threads' = [threads EXCEPT !.push = [queue |-> queue_to_push,
                                            address |-> node_address,
                                            list |-> "registry"]]
    /\ last' = [op |-> "_push_certain_newly_discovered_nodes_here",
                args |-> [queue |-> queue_to_push, addresses |-> {node_address},
                          step |-> "subscript"],
                out |-> "None", events |-> <<>>, cand |-> NoNode]
    /\ UNCHANGED <<config, candidate, learner, pc, waiter>>

\* Line 527, the append, to the list object the subscript gave.
PushAppend ==
    /\ threads.push # NoPush
    /\ learning_listeners' =
          IF threads.push.list = "registry"
          THEN [learning_listeners EXCEPT ![threads.push.address] =
                                              Append(@, threads.push.queue)]
          ELSE learning_listeners
    /\ threads' = [threads EXCEPT
                     !.push = NoPush,
                     !.registered = @ \cup {<<threads.push.queue, threads.push.address>>},
                     !.merge.listeners = IF threads.push.list = "popped"
                                         THEN Append(@, threads.push.queue)
                                         ELSE @]
    /\ last' = [op |-> "_push_certain_newly_discovered_nodes_here",
                args |-> [queue |-> threads.push.queue,
                          addresses |-> {threads.push.address}, step |-> "append"],
                out |-> "None", events |-> <<>>, cand |-> NoNode]
    /\ UNCHANGED <<config, candidate, loop_state, known_nodes, order, checksum, nickname,
                   wanted, teacher_nodes, current_teacher_node, learning_round,
                   rounds_without_new_nodes, interval, running, pc, round,
                   done_seeding, unresponsive_seed_nodes, contacts>>

Stored(R) == \E k \in 1..Len(R.events) : R.events[k][1] = "store"

\* Lines 260-289 with the outcome R of the whole call: a call that does not
\* admit the record ends here; one that admits it has popped the list of the
\* address (286) and stored the record (289), and goes on to the loop of 296.
MergeStep(R, node) ==
    /\ last' = [op |-> "remember_node",
                args |-> [node |-> node, force |-> FALSE,
                          step |-> IF Stored(R) THEN "pop" ELSE "whole"],
                out |-> IF Stored(R) THEN "None" ELSE R.out,
                events |-> SelectSeq(R.events, LAMBDA e : e[1] # "notify"),
                cand |-> R.cand]
    /\ Commit([R EXCEPT !.wanted = wanted])
    /\ threads' =
          IF Stored(R)
          THEN [threads EXCEPT
                  !.merge = [address |-> node.id,
                             listeners |-> learning_listeners[node.id],
                             next |-> 1, out |-> R.out],
                  !.push.list = IF @ = "registry" /\ threads.push.address = node.id
                                THEN "popped" ELSE @]
          ELSE threads
    /\ UNCHANGED <<config, candidate, loop_state, running, pc, round>>

MergePop(node, update_fleet_state_flag, resp) ==
    /\ pc = "idle"
    /\ threads.merge = NoMerge
    /\ MergeStep(remember_node(Me, node, 0, FALSE, update_fleet_state_flag, resp), node)

\* Lines 296-297, one turn of the loop: the iterator of the popped list gives
\* the next listener, appended meanwhile or not, and listener.add is called.
MergeNotify ==
    /\ threads.merge # NoMerge
    /\ threads.merge.next <= Len(threads.merge.listeners)
    /\ threads' = [threads EXCEPT
                     !.merge.next = @ + 1,
                     !.notified = @ \cup {<<threads.merge.listeners[threads.merge.next],
                                            threads.merge.address>>}]
    /\ last' = [op |-> "remember_node",
                args |-> [node |-> known_nodes[threads.merge.address], force |-> FALSE,
                          step |-> "notify"],
                out |-> "None",
                events |-> <<Event("notify", 0, threads.merge.address,
                                   threads.merge.listeners[threads.merge.next])>>,
                cand |-> NoNode]
    /\ UNCHANGED <<config, candidate, learner, pc, waiter>>

\* Lines 296-303: the iterator is exhausted, and the popped list is read by
\* nobody from here on; the address leaves the wanted set and the call ends.
MergeEnd ==
    /\ threads.merge # NoMerge
    /\ threads.merge.next > Len(threads.merge.listeners)
    /\ wanted' = wanted \ {threads.merge.address}
    /\ threads' = [threads EXCEPT !.merge = NoMerge,
                                  !.push.list = IF @ = "popped" THEN "dropped" ELSE @]
    /\ last' = [op |-> "remember_node",
                args |-> [node |-> known_nodes[threads.merge.address], force |-> FALSE,
                          step |-> "end"],
                out |-> threads.merge.out, events |-> <<>>, cand |-> NoNode]
    /\ UNCHANGED <<config, candidate, loop_state, known_nodes, order, checksum, nickname,
                   learning_listeners, teacher_nodes, current_teacher_node,
                   learning_round, rounds_without_new_nodes, interval, running, pc,
                   round, done_seeding, unresponsive_seed_nodes, contacts>>

\* What a call returned is no fault; anything else is what it raised.
IsFault(out) == out \notin {"None", "True", "False", "loop", "new_nodes"}

\* The rounds the LoopingCall makes (keep_learning_about_nodes, also by way of
\* learn_about_nodes_now), and those a block_until_ helper makes itself.
TaskOps == {"keep_learning_about_nodes", "learn_about_specific_nodes"}
WaitOps == {"block_until_number_of_known_nodes_is",
            "block_until_specific_nodes_are_known"}

\* Where control goes when a step of a round has ended with out: on in the loop,
\* to the task's errback (a failure of the LoopingCall's function reaches the
\* deferred of line 316 or 321), back into the helper, or to the caller.
AfterRound(caller, out) ==
    IF out = "loop" THEN "learning"
    ELSE IF caller = "start_learning_loop" THEN "starting"
    ELSE IF caller \in TaskOps /\ IsFault(out) THEN "errback"
    ELSE IF caller \in WaitOps THEN "waiting"
    ELSE "idle"

\* A failure of the function stops the LoopingCall before its deferred fires
\* (twisted.internet.task.LoopingCall: running = False, then errback).
TaskRunning(caller, out) == running /\ AfterRound(caller, out) # "errback"

\* Line 577: the teacher the peer-list request was sent to.
AskedTeacher(events) ==
    IF \E k \in 1..Len(events) : events[k][1] = "get_nodes_via_rest"
    THEN events[CHOOSE k \in 1..Len(events) : events[k][1] = "get_nodes_via_rest"][3]
    ELSE 0

\* Lines 371-387, called on its own.
CycleTeacherNode(shuffle) ==
    /\ pc = "idle"
    /\ LET R == cycle_teacher_node(Me, shuffle)
       IN  /\ Commit(R)
           /\ last' = Call("cycle_teacher_node", [none |-> 0], R)
    /\ UNCHANGED <<config, candidate, threads, loop_state, running, pc, round>>

\* A round from its first line to the start of its loop, or to its early end.
EnterRound(S, op, args, eager, transport, shuffle) ==
    LET R == begin_round(S, transport, shuffle)
    IN  /\ Commit(R)
        /\ pc' = AfterRound(op, R.out)
        /\ round' = [eager |-> eager, starting_round |-> learning_round,
                     new_nodes |-> R.new_nodes, processed |-> 0,
                     suspicious |-> R.suspicious, admitted |-> R.admitted,
                     caller |-> op, teacher |-> AskedTeacher(R.events),
                     failure |-> IF IsFault(R.out) THEN R.out ELSE "None"]
        /\ last' = Call(op, args, R)
        /\ running' = TaskRunning(op, R.out)
        /\ UNCHANGED <<config, candidate, threads, loop_state>>

LearnFromTeacherNode(eager, transport, shuffle) ==
    /\ pc = "idle"
    /\ EnterRound(Me, "learn_from_teacher_node",
                  [step |-> "begin", eager |-> eager, transport |-> transport],
                  eager, transport, shuffle)

LearnCandidate(node, resp) ==
    /\ pc = "learning"
    /\ round.processed < MaxBatch
    /\ LET R == learn_candidate(Me, round.eager, node, resp, round.processed + 1)
       IN  /\ Commit(R)
           /\ pc' = AfterRound(round.caller, R.out)
           /\ round' = [round EXCEPT !.new_nodes = R.new_nodes,
                                     !.processed = @ + 1,
                                     !.suspicious = R.suspicious,
                                     !.admitted = R.admitted,
                                     !.failure = IF IsFault(R.out) THEN R.out ELSE "None"]
           /\ last' = Call("learn_from_teacher_node",
                           [step |-> "candidate", node |-> node], R)
           /\ running' = TaskRunning(round.caller, R.out)
    /\ UNCHANGED <<config, candidate, threads, loop_state>>

FinishRound(shuffle) ==
    /\ pc = "learning"
    /\ LET R == finish_round(Me, shuffle)
       IN  /\ Commit(R)
           /\ pc' = AfterRound(round.caller, R.out)
           /\ round' = [round EXCEPT !.failure = IF IsFault(R.out) THEN R.out ELSE "None"]
           /\ last' = Call("learn_from_teacher_node", [step |-> "finish"], R)
           /\ running' = TaskRunning(round.caller, R.out)
    /\ UNCHANGED <<config, candidate, threads, loop_state>>

\* Lines 419-421 and 400-411: with the task not running, learn_about_nodes_now
\* only logs; with it running it calls the LoopingCall, which runs a lazy round
\* in the caller and hands a failure of it to the task's errback.
LearnAboutSpecificNodes(canonical_addresses, transport, shuffle) ==
    /\ pc = "idle"
    /\ LET W == [Me EXCEPT !.wanted = @ \cup canonical_addresses]
       IN  IF running
           THEN EnterRound(W, "learn_about_specific_nodes",
                           [step |-> "begin", eager |-> FALSE, transport |-> transport],
                           FALSE, transport, shuffle)
           ELSE /\ Commit(W)
                /\ last' = Call("learn_about_specific_nodes",
                                [step |-> "none"], W)
                /\ UNCHANGED <<config, candidate, threads, loop_state, running, pc, round>>

\* ------------------------------------------------------- the learning loop
\* Line 417: a round the LoopingCall makes, lazy.
KeepLearningAboutNodes(transport, shuffle) ==
    /\ pc = "idle"
    /\ running
    /\ EnterRound(Me, "keep_learning_about_nodes",
                  [step |-> "begin", eager |-> FALSE, transport |-> transport],
                  FALSE, transport, shuffle)

\* The task and what is deferred, as start_learning_loop and the errback see it.
Loop == [running |-> running, interval |-> interval, pending |-> pending]

start_learning_loop_unguarded(L) ==
    [L EXCEPT !.pending.seeder = TRUE,
              !.running = TRUE,
              !.interval = SHORT_LEARNING_DELAY]

\* Lines 319-325 (now=False): the seeder goes to a thread, the task is started
\* at the short delay and makes its first call after that delay.
start_learning_loop(L) ==
    IF L.running THEN L
    ELSE [L EXCEPT !.pending.seeder = TRUE,
                   !.running = TRUE,
                   !.interval = SHORT_LEARNING_DELAY]

handle_learning_errors_without_restart(L, abort, failure) ==
    IF abort
    THEN [L EXCEPT !.pending.crash = Append(@, failure)]
    ELSE L

handle_learning_errors_crashing(L, abort, failure) ==
    [L EXCEPT !.pending.crash = Append(@, failure)]

\* Lines 332-342
handle_learning_errors(L, abort, failure) ==
    IF abort
    THEN [L EXCEPT !.pending.crash = Append(@, failure)]
    ELSE IF ~L.running THEN start_learning_loop(L) ELSE L

\* The errback of the task's deferred (lines 317, 323) with the failure of a round.
HandleLearningErrors ==
    /\ pc = "errback"
    /\ LET L == handle_learning_errors(Loop, abort_on_learning_error, round.failure)
       IN  /\ running' = L.running
           /\ interval' = L.interval
           /\ pending' = L.pending
           /\ last' = [op |-> "handle_learning_errors",
                       args |-> [failure |-> round.failure],
                       out |-> "None",
                       events |-> <<Event(IF abort_on_learning_error
                                          THEN "callFromThread" ELSE "log",
                                          0, 0, round.failure)>>,
                       cand |-> NoNode]
    /\ pc' = "idle"
    /\ UNCHANGED <<config, candidate, threads, seed_answers, crashed, waiter, known_nodes, order, checksum,
                   nickname, learning_listeners, wanted, teacher_nodes,
                   current_teacher_node, learning_round, rounds_without_new_nodes,
                   round, done_seeding, unresponsive_seed_nodes, contacts>>

\* Lines 344-350, called by the reactor: the failure is kept and raised again.
CrashGracefully ==
    /\ pending.crash # <<>>
    /\ crashed' = Head(pending.crash)
    /\ pending' = [pending EXCEPT !.crash = Tail(@)]
    /\ last' = [op |-> "_crash_gracefully", args |-> [failure |-> Head(pending.crash)],
                out |-> Head(pending.crash), events |-> <<>>, cand |-> NoNode]
    /\ UNCHANGED <<config, candidate, threads, seed_answers, waiter, known_nodes, order, checksum,
                   nickname, learning_listeners, wanted, teacher_nodes,
                   current_teacher_node, learning_round, rounds_without_new_nodes,
                   interval, running, pc, round,
                   done_seeding, unresponsive_seed_nodes, contacts>>

\* Line 320: load_seednodes in its thread; a failure of it goes to the errback
\* of line 322.
LoadSeednodes ==
    /\ pc = "idle"
    /\ pending.seeder
    /\ \A s \in Range(seed_nodes) : contacts[s] < MaxContacts
    /\ LET R == load_seednodes(Me)
           L == IF IsFault(R.out)
                THEN handle_learning_errors([Loop EXCEPT !.pending.seeder = FALSE],
                                            abort_on_learning_error, R.out)
                ELSE [Loop EXCEPT !.pending.seeder = FALSE]
       IN  /\ Commit([R EXCEPT !.interval = L.interval])
           /\ running' = L.running
           /\ pending' = L.pending
           /\ last' = Call("load_seednodes", [none |-> 0], R)
    /\ UNCHANGED <<config, candidate, threads, seed_answers, crashed, waiter, pc, round>>

\* ----------------------------------------- the seeding pass in its own thread
\* deferToThread(self.load_seednodes) (line 320) runs the pass in the thread
\* pool while the reactor goes on with the task: seen from the reactor, the pass
\* is the following steps. Its failure comes back to the reactor as the errback
\* of line 322.
RemoveAt(s, k) == [i \in 1..(Len(s) - 1) |-> IF i < k THEN s[i] ELSE s[i + 1]]

Seeder(next, at, failure) == [next |-> next, at |-> at, failure |-> failure]

SeederLast(step, seed, out, events) ==
    [op |-> "load_seednodes", args |-> [step |-> step, seed |-> seed],
     out |-> out, events |-> events, cand |-> NoNode]

\* Lines 209-212: a pool thread takes the call up; done_seeding makes it return.
SeederStart ==
    /\ pending.seeder
    /\ Len(threads.seeders) < MaxSeeders
    /\ pending' = [pending EXCEPT !.seeder = FALSE]
    /\ threads' = IF done_seeding THEN threads
                  ELSE [threads EXCEPT !.seeders = Append(@, Seeder(1, "contact", "None"))]
    /\ last' = SeederLast("begin", 0, "None", <<>>)
    /\ UNCHANGED <<config, candidate, seed_answers, crashed, waiter, known_nodes, order,
                   checksum, nickname, learning_listeners, wanted, teacher_nodes,
                   current_teacher_node, learning_round, rounds_without_new_nodes,
                   interval, running, pc, round, done_seeding,
                   unresponsive_seed_nodes, contacts>>

\* Lines 214-226 with the outcome r of from_seednode_metadata: the thread holds
\* the seed's node and is before line 230, or the call has raised.
SeederContacted(k, seed, r) ==
    /\ contacts' = [contacts EXCEPT ![seed] = @ + 1]
    /\ threads' = [threads EXCEPT !.seeders[k] =
                      IF r.out = "node" THEN Seeder(@.next, "answered", "None")
                      ELSE Seeder(@.next, "failed", r.out)]
    /\ last' = SeederLast("contact", seed, IF r.out = "node" THEN "None" ELSE r.out,
                          <<Event("seeding_from", 0, seed, 0)>>)
    /\ UNCHANGED <<config, candidate, loop_state, known_nodes, order, checksum, nickname,
                   learning_listeners, wanted, teacher_nodes, current_teacher_node,
                   learning_round, rounds_without_new_nodes, interval, running, pc,
                   round, done_seeding, unresponsive_seed_nodes>>

SeederContact(k) ==
    /\ k \in 1..Len(threads.seeders)
    /\ threads.seeders[k].at = "contact"
    /\ threads.seeders[k].next <= Len(seed_nodes)
    /\ contacts[seed_nodes[threads.seeders[k].next]] < MaxContacts
    /\ SeederContacted(k, seed_nodes[threads.seeders[k].next],
                       from_seed_and_stake_info(seed_nodes[threads.seeders[k].next],
                                                seed_answers[seed_nodes[threads.seeders[k].next]],
                                                federated_only))

\* Lines 230-231 with their outcome R: the seed is discarded from
\* unresponsive_seed_nodes and its node remembered; an exception of remember_node
\* ends the pass.
SeederRemembered(k, seed, R) ==
    /\ Commit(R)
    /\ threads' = [threads EXCEPT !.seeders[k] =
                      IF IsFault(R.out) THEN Seeder(@.next, "failed", R.out)
                      ELSE Seeder(@.next + 1, "contact", "None")]
    /\ last' = SeederLast("remember", seed, R.out, R.events)
    /\ UNCHANGED <<config, candidate, loop_state, running, pc, round>>

SeederRemember(k) ==
    /\ k \in 1..Len(threads.seeders)
    /\ threads.seeders[k].at = "answered"
    /\ SeederRemembered(k, seed_nodes[threads.seeders[k].next],
                        seed_attempted(Me, seed_nodes[threads.seeders[k].next],
                            from_seed_and_stake_info(
                                seed_nodes[threads.seeders[k].next],
                                seed_answers[seed_nodes[threads.seeders[k].next]],
                                federated_only)))

\* Lines 236-247: past the last seed the pass is over.
SeederEnd(k) ==
    /\ k \in 1..Len(threads.seeders)
    /\ threads.seeders[k].at = "contact"
    /\ threads.seeders[k].next > Len(seed_nodes)
    /\ done_seeding' = TRUE
    /\ threads' = [threads EXCEPT !.seeders = RemoveAt(@, k)]
    /\ last' = SeederLast("end", 0, "None", <<>>)
    /\ UNCHANGED <<config, candidate, loop_state, known_nodes, order, checksum, nickname,
                   learning_listeners, wanted, teacher_nodes, current_teacher_node,
                   learning_round, rounds_without_new_nodes, interval, running, pc,
                   round, unresponsive_seed_nodes, contacts>>

\* Line 322: the errback of the seeder's deferred, run by the reactor when it
\* is not inside a call of its own, with what handle_learning_errors decided.
SeederFailed(k, failure, L) ==
    /\ running' = L.running
    /\ interval' = L.interval
    /\ pending' = L.pending
    /\ threads' = [threads EXCEPT !.seeders = RemoveAt(@, k)]
    /\ last' = [op |-> "handle_learning_errors", args |-> [failure |-> failure],
                out |-> "None",
                events |-> <<Event(IF abort_on_learning_error
                                   THEN "callFromThread" ELSE "log", 0, 0, failure)>>,
                cand |-> NoNode]
    /\ UNCHANGED <<config, candidate, seed_answers, crashed, waiter, known_nodes, order,
                   checksum, nickname, learning_listeners, wanted, teacher_nodes,
                   current_teacher_node, learning_round, rounds_without_new_nodes,
                   pc, round, done_seeding, unresponsive_seed_nodes, contacts>>

SeederErrback(k) ==
    /\ pc = "idle"
    /\ k \in 1..Len(threads.seeders)
    /\ threads.seeders[k].at = "failed"
    /\ SeederFailed(k, threads.seeders[k].failure,
                    handle_learning_errors(Loop, abort_on_learning_error,
                                           threads.seeders[k].failure))

\* Lines 311-315 (now=True): load_seednodes runs in the caller, and an exception
\* of it leaves start_learning_loop; then the LoopingCall, not yet started, is
\* called once and runs a lazy round. A running task makes the call return False.
StartLearningLoop(transport, shuffle) ==
    /\ pc = "idle"
    /\ \A s \in Range(seed_nodes) : contacts[s] < MaxContacts
    /\ LET args == [step |-> "begin", eager |-> FALSE, transport |-> transport]
           R == load_seednodes(Me)
       IN  IF running
           THEN /\ last' = Call("start_learning_loop", args, [Me EXCEPT !.out = "False"])
                /\ UNCHANGED <<config, candidate, threads, learner, pc, waiter>>
           ELSE IF IsFault(R.out)
           THEN /\ Commit(R)
                /\ last' = Call("start_learning_loop", args, R)
                /\ UNCHANGED <<config, candidate, threads, loop_state, running, pc, round>>
           ELSE EnterRound(R, "start_learning_loop", args, FALSE, transport, shuffle)

\* Lines 311-312 and 319-325: start_learning_loop() with now left at False,
\* called by a user of the Learner.
StartLearningLoopLater ==
    /\ pc = "idle"
    /\ LET L == start_learning_loop(Loop)
       IN  /\ running' = L.running
           /\ interval' = L.interval
           /\ pending' = L.pending
           /\ last' = [op |-> "start_learning_loop",
                       args |-> [step |-> "begin", eager |-> FALSE, transport |-> "ok"],
                       out |-> IF running THEN "False" ELSE "None",
                       events |-> <<>>, cand |-> NoNode]
    /\ UNCHANGED <<config, candidate, threads, seed_answers, crashed, waiter, known_nodes, order,
                   checksum, nickname, learning_listeners, wanted, teacher_nodes,
                   current_teacher_node, learning_round, rounds_without_new_nodes,
                   pc, round, done_seeding, unresponsive_seed_nodes, contacts>>

\* Lines 316-318: the task is started at the short delay. A failure of the call
\* of line 315 stayed in the deferred of that call (twisted.internet.task.
\* LoopingCall.__call__ runs the function through maybeDeferred) and is not raised.
StartTask ==
    /\ pc = "starting"
    /\ running' = TRUE
    /\ interval' = SHORT_LEARNING_DELAY
    /\ pc' = "idle"
    /\ last' = [op |-> "start_learning_loop",
                args |-> [step |-> "start", eager |-> FALSE, transport |-> "ok"],
                out |-> "None", events |-> <<>>, cand |-> NoNode]
    /\ UNCHANGED <<config, candidate, threads, loop_state, known_nodes, order, checksum, nickname,
                   learning_listeners, wanted, teacher_nodes, current_teacher_node,
                   learning_round, rounds_without_new_nodes, round,
                   done_seeding, unresponsive_seed_nodes, contacts>>

\* A seed host changes what it answers.
SeedChanges(seed, answer) ==
    /\ seed \in Range(seed_nodes)
    /\ seed_answers[seed] # answer
    /\ seed_answers' = [seed_answers EXCEPT ![seed] = answer]
    /\ UNCHANGED <<config, candidate, threads, crashed, pending, waiter, known_nodes, order, checksum,
                   nickname, learning_listeners, wanted, teacher_nodes,
                   current_teacher_node, learning_round, rounds_without_new_nodes,
                   interval, running, pc, round, last,
                   done_seeding, unresponsive_seed_nodes, contacts>>

\* ------------------------------------------------------- blocking helpers
NUMBER == "block_until_number_of_known_nodes_is"
SPECIFIC == "block_until_specific_nodes_are_known"

\* Lines 429-430 and 466-467: the call is entered, the clock and round are noted.
BlockUntilNumberOfKnownNodesIs(number_of_nodes_to_know, timeout, learn_on_this_thread) ==
    /\ pc = "idle"
    /\ waiter.op = "None"
    /\ waiter' = [NoWaiter EXCEPT !.op = NUMBER,
                                  !.number_of_nodes_to_know = number_of_nodes_to_know,
                                  !.timeout = timeout,
                                  !.learn_on_this_thread = learn_on_this_thread,
                                  !.starting_round = learning_round]
    /\ last' = [op |-> NUMBER, args |-> [step |-> "start"], out |-> "None",
                events |-> <<>>, cand |-> NoNode]
    /\ UNCHANGED <<config, candidate, threads, learner, pc>>

BlockUntilSpecificNodesAreKnown(canonical_addresses, timeout, allow_missing, learn_on_this_thread) ==
    /\ pc = "idle"
    /\ waiter.op = "None"
    /\ waiter' = [NoWaiter EXCEPT !.op = SPECIFIC,
                                  !.canonical_addresses = canonical_addresses,
                                  !.timeout = timeout,
                                  !.allow_missing = allow_missing,
                                  !.learn_on_this_thread = learn_on_this_thread,
                                  !.starting_round = learning_round]
    /\ last' = [op |-> SPECIFIC, args |-> [step |-> "start"], out |-> "None",
                events |-> <<>>, cand |-> NoNode]
    /\ UNCHANGED <<config, candidate, threads, learner, pc>>

\* A second passes while a caller is inside a helper; past the timeout the
\* clock tells the helper nothing new.
Tick ==
    /\ waiter.op # "None"
    /\ waiter.elapsed <= waiter.timeout
    /\ waiter' = [waiter EXCEPT !.elapsed = @ + 1]
    /\ UNCHANGED <<config, candidate, threads, learner, pc, last>>

\* How an iteration of a helper's loop ends: it returns out, raises out with a
\* message, or sleeps.
Outcome(how, out, template, args, nodes) ==
    [how |-> how, out |-> out,
     message |-> [template |-> template, args |-> args, nodes |-> nodes]]
Returns(out) == Outcome("return", out, "", <<>>, {})
Raises(out) == Outcome("raise", out, "", <<>>, {})
Sleeps == Outcome("sleep", "sleep", "", <<>>, {})

\* Lines 452-459
number_timed_out(w, is_running, rounds_undertaken) ==
    IF w.elapsed > w.timeout
    THEN IF ~is_running
         THEN Outcome("raise", "NotEnoughTeachers",
                      "Learning loop is not running.  Start it with start_learning().",
                      <<>>, {})
         ELSE Outcome("raise", "NotEnoughTeachers",
                      "After {} seconds and {} rounds, didn't find {} nodes",
                      <<w.timeout, rounds_undertaken, w.number_of_nodes_to_know>>, {})
    ELSE Sleeps

\* Lines 485-499
specific_timed_out(w, is_running, rounds_undertaken, still_unknown) ==
    IF w.elapsed > w.timeout
    THEN IF Cardinality(still_unknown) <= w.allow_missing
         THEN Returns("False")
         ELSE IF ~is_running
         THEN Outcome("raise", "NotEnoughTeachers",
                      "The learning loop is not running.  Start it with start_learning().",
                      <<>>, {})
         ELSE Outcome("raise", "NotEnoughTeachers",
                      "After {} seconds and {} rounds, didn't find these {} nodes: {}",
                      <<w.timeout, rounds_undertaken, Cardinality(still_unknown)>>,
                      still_unknown)
    ELSE Sleeps

timed_out(w, is_running, rounds_undertaken, known) ==
    IF w.op = NUMBER
    THEN number_timed_out(w, is_running, rounds_undertaken)
    ELSE specific_timed_out(w, is_running, rounds_undertaken,
                            w.canonical_addresses \ known)

\* Lines 470-471: _crashed is assigned only by _crash_gracefully (line 349),
\* so reading it before that raises AttributeError; a failure is true.
crash_seen_or_done(w, crash, known) ==
    IF crash = "unset" THEN Raises("AttributeError")
    ELSE IF IsFault(crash) THEN Returns(crash)
    ELSE IF w.canonical_addresses \subseteq known THEN Returns("True")
    ELSE Sleeps

\* Lines 433-438 and 470-477: the tests at the head of the loop; "sleep" when
\* neither ends the call.
done(w, crash, known) ==
    IF w.op = NUMBER
    THEN IF Cardinality(known) >= w.number_of_nodes_to_know
         THEN Returns("True")
         ELSE Sleeps
    ELSE crash_seen_or_done(w, crash, known)

\* Lines 444-449 and 483: what the helper does with the outcome of its own
\* round; the number variant goes on after a timeout of the request.
own_round_done(w, failure, is_running, rounds_undertaken, known) ==
    IF failure = "None" \/ (w.op = NUMBER /\ failure \in {"ReadTimeout", "ConnectTimeout"})
    THEN timed_out(w, is_running, rounds_undertaken, known)
    ELSE Raises(failure)

\* The helper leaves its loop with r, or sleeps and goes round again.
WaitStep(r) ==
    /\ waiter' = IF r.how = "sleep" THEN waiter ELSE NoWaiter
    /\ last' = [op |-> waiter.op, args |-> [step |-> r.how], out |-> r.out,
                events |-> <<Event(r.how, 0, 0, r.message)>>, cand |-> NoNode]
    /\ pc' = "idle"
    /\ UNCHANGED <<config, candidate, threads, learner>>

\* One iteration of the loop of a helper, up to its own round if it makes one.
Poll(transport, shuffle) ==
    /\ pc = "idle"
    /\ waiter.op # "None"
    /\ LET d == done(waiter, crashed, Known(known_nodes))
       IN  IF d.how # "sleep"
           THEN WaitStep(d)
           ELSE IF waiter.learn_on_this_thread
           THEN /\ learning_round < MaxRounds
                /\ EnterRound(Me, waiter.op,
                              [step |-> "begin", eager |-> TRUE, transport |-> transport],
                              TRUE, transport, shuffle)
           ELSE WaitStep(timed_out(waiter, running,
                                   learning_round - waiter.starting_round,
                                   Known(known_nodes)))

\* The helper's own round has ended: lines 446-459 and 485-499.
Resume ==
    /\ pc = "waiting"
    /\ WaitStep(own_round_done(waiter, round.failure, running,
                               round.starting_round - waiter.starting_round,
                               Known(known_nodes)))

\* ------------------------------------------------------- specifications
\* FleetState and its bookkeeping: remember_node on signed advertisements,
\* update_fleet_state, listener registration, wanted identities.
FleetNodes(fo) == Advertisements(AllIds, BOOLEAN, {"good"}, {fo})
FleetResponses == {"match", "verifying_key", "ConnectionError"}

InitFleet ==
    \E fo \in {FALSE}, n \in 0..MaxInitNodes :
        \E nodes \in [1..n -> Advertisements(Ids, {TRUE}, {"good"}, {fo})] :
            Constructed(fo, FALSE, nodes, [i \in 1..n |-> "match"])

NextFleet ==
    \/ \E node \in FleetNodes(federated_only), ufs \in BOOLEAN, resp \in FleetResponses :
           RememberNode(node, FALSE, ufs, resp)
    \/ UpdateFleetState
    \/ \E q \in Listeners, as \in (SUBSET Ids) \ {{}} :
           PushCertainNewlyDiscoveredNodesHere(q, as)
    \/ \E as \in (SUBSET Ids) \ {{}} :
           LearnAboutSpecificNodes(as, "ok", [i \in 1..NumIds |-> i])

SpecFleet == InitFleet /\ [][NextFleet]_vars

\* A caller registering listeners on one thread while remember_node merges
\* records on another.
InitListeners == Constructed(FALSE, FALSE, <<>>, <<>>)

NextListeners ==
    \/ \E q \in Listeners, a \in Ids : PushLookup(q, a)
    \/ PushAppend
    \/ \E node \in FleetNodes(federated_only), ufs \in BOOLEAN, resp \in FleetResponses :
           MergePop(node, ufs, resp)
    \/ MergeNotify
    \/ MergeEnd

SpecListeners == InitListeners /\ [][NextListeners]_vars

\* verify_node and remember_node on every kind of advertisement and live answer.
\* One identity is enough here: verification looks at one record at a time.
VerifyIds == {1}
VerifyNodes(fo) ==
    Advertisements(VerifyIds, BOOLEAN, Evidence, BOOLEAN)
        \cup Verified(VerifyIds, {"good", "none"}, fo)

InitVerify ==
    \E fo \in BOOLEAN : Constructed(fo, FALSE, <<>>, <<>>)

NextVerify ==
    \/ \E node \in VerifyNodes(federated_only), resp \in Responses :
         \E force \in (IF node.vn THEN BOOLEAN ELSE {FALSE}) :
           RememberNode(node, force, FALSE, resp)
    \/ \E a \in VerifyIds, force \in BOOLEAN, resp \in Responses :
           VerifyNode(a, force, resp)

SpecVerify == InitVerify /\ [][NextVerify]_vars

\* The checks of VerifiableNode in any order on one node object, of every kind
\* of advertisement, under both modes of the caller.
NodeOps == {"stamp_is_valid", "interface_is_valid", "validate_metadata", "verify_node"}

InitNode == Constructed(FALSE, FALSE, <<>>, <<>>)

NextNode ==
    \/ \E node \in Advertisements(VerifyIds, BOOLEAN, Evidence, BOOLEAN) : NewNode(node)
    \/ StampIsValid
    \/ InterfaceIsValid
    \/ \E accept_federated_only \in BOOLEAN : ValidateMetadata(accept_federated_only)
    \/ \E resp \in Responses, accept_federated_only \in BOOLEAN, force \in BOOLEAN :
           VerifyCandidate(resp, accept_federated_only, force)

SpecNode == InitNode /\ [][NextNode]_vars

\* Learning rounds, eager and lazy, on batches of up to MaxBatch candidates.
RoundNodes(fo) == Advertisements(AllIds, BOOLEAN, {"good", "bad"}, {fo})
RoundResponses == {"match", "ConnectionError"} \cup LiveMismatches

InitRound ==
    \E fo \in {FALSE}, n \in 0..MaxInitNodes :
        \E nodes \in [1..n -> Advertisements(Ids, {TRUE}, {"good"}, {fo})] :
            Constructed(fo, FALSE, nodes, [i \in 1..n |-> "match"])

NextRound ==
    \/ \E eager \in BOOLEAN, transport \in PeerListOutcomes, shuffle \in Shuffles :
           /\ learning_round < MaxRounds
           /\ LearnFromTeacherNode(eager, transport, shuffle)
    \/ \E node \in RoundNodes(federated_only), resp \in RoundResponses :
           LearnCandidate(node, resp)
    \/ \E shuffle \in Shuffles : FinishRound(shuffle)

SpecRound == InitRound /\ [][NextRound]_vars

\* The backoff: rounds of a started loop, long enough to pass the threshold.
InitBackoff ==
    \E node \in Advertisements(Ids, {TRUE}, {"good"}, {FALSE}) :
        Constructed(FALSE, TRUE, <<node>>, <<"match">>)

NextBackoff ==
    \/ \E transport \in {"ok", "ConnectionError"}, shuffle \in Shuffles :
           /\ learning_round < MaxBackoffRounds
           /\ LearnFromTeacherNode(FALSE, transport, shuffle)
    \/ \E node \in Advertisements(Ids, {TRUE}, {"good"}, {FALSE}) :
           LearnCandidate(node, "match")
    \/ \E shuffle \in Shuffles : FinishRound(shuffle)

SpecBackoff == InitBackoff /\ [][NextBackoff]_vars

\* Teacher selection and the peer-list request: peers become known one by one,
\* teachers are cycled, rounds are entered with every outcome of the request.
TeacherNodes == {Fresh(id, 1, TRUE, "good", FALSE) : id \in Ids}

InitTeacher ==
    \E n \in 0..MaxInitNodes :
        \E nodes \in [1..n -> TeacherNodes] :
            Constructed(FALSE, FALSE, nodes, [i \in 1..n |-> "match"])

NextTeacher ==
    \/ \E node \in TeacherNodes : RememberNode(node, FALSE, FALSE, "match")
    \/ \E shuffle \in Shuffles : CycleTeacherNode(shuffle)
    \/ \E eager \in BOOLEAN, transport \in PeerListOutcomes, shuffle \in Shuffles :
           /\ learning_round < MaxRounds
           /\ LearnFromTeacherNode(eager, transport, shuffle)
    \/ \E node \in TeacherNodes : LearnCandidate(node, "match")
    \/ \E shuffle \in Shuffles : FinishRound(shuffle)

SpecTeacher == InitTeacher /\ [][NextTeacher]_vars

\* The started loop with seed nodes: the seeder thread, scheduled rounds, the
\* errback under both policies, the deferred crash, seed hosts coming and going.
LoopAnswers(seed) ==
    {NoAnswer,
     SeedAnswer("500", NoNode, "match"),
     SeedAnswer("200", Fresh(seed, 1, TRUE, "good", FALSE), "match")}
LoopOutcomes == {"ok", "ConnectionError", "status_500"}

InitLoop ==
    \E abort \in BOOLEAN, seeds \in [1..MaxSeeds -> Ids] :
        ConstructedWith(FALSE, TRUE, <<Fresh(NumIds, 1, TRUE, "good", FALSE)>>, <<"match">>,
                        seeds, [i \in Ids |-> NoAnswer], abort)

NextLoop ==
    \/ \E transport \in LoopOutcomes, shuffle \in Shuffles :
           /\ learning_round < MaxLoopRounds
           /\ KeepLearningAboutNodes(transport, shuffle)
    \/ \E node \in TeacherNodes : LearnCandidate(node, "match")
    \/ \E shuffle \in Shuffles : FinishRound(shuffle)
    \/ HandleLearningErrors
    \/ CrashGracefully
    \/ LoadSeednodes
    \/ \E seed \in Ids : \E answer \in LoopAnswers(seed) : SeedChanges(seed, answer)
    \/ \E shuffle \in Shuffles : CycleTeacherNode(shuffle)

SpecLoop == InitLoop /\ [][NextLoop]_vars

\* The bootstrap: a Learner constructed with an empty FleetState and up to
\* MaxBootSeeds seeds, each reachable or not, on which start_learning_loop(now=True)
\* is called; then the rounds of the task, with candidates of every kind.
BootSeeds ==
    {q \in UNION {[1..n -> Ids] : n \in 0..MaxBootSeeds} :
        \A i, j \in 1..Len(q) : q[i] = q[j] => i = j}
Reachable(seed) == SeedAnswer("200", Fresh(seed, 1, TRUE, "good", FALSE), "match")
BootResponses == {"match", "ConnectionError", "verifying_key"}

InitBootstrap ==
    \E seeds \in BootSeeds, reachable \in SUBSET Ids :
        ConstructedWith(FALSE, FALSE, <<>>, <<>>, seeds,
                        [i \in Ids |-> IF i \in reachable THEN Reachable(i) ELSE NoAnswer],
                        FALSE)

NextBootstrap ==
    \/ \E transport \in PeerListOutcomes, shuffle \in Shuffles :
           /\ learning_round < MaxRounds
           /\ StartLearningLoop(transport, shuffle)
    \/ StartTask
    \/ \E transport \in PeerListOutcomes, shuffle \in Shuffles :
           /\ learning_round < MaxRounds
           /\ KeepLearningAboutNodes(transport, shuffle)
    \/ \E node \in RoundNodes(federated_only), resp \in BootResponses :
           LearnCandidate(node, resp)
    \/ \E shuffle \in Shuffles : FinishRound(shuffle)
    \/ HandleLearningErrors
    \/ LoadSeednodes

SpecBootstrap == InitBootstrap /\ [][NextBootstrap]_vars

\* Both policies: the loop is started by a user, with now True or False, fails,
\* is restarted or crashes, and learn_about_specific_nodes makes rounds of its own.
InitPolicy ==
    \E seeds \in UNION {[1..n -> Ids] : n \in 0..MaxSeeds}, reachable \in SUBSET Ids,
       abort \in BOOLEAN :
        ConstructedWith(FALSE, FALSE, <<>>, <<>>, seeds,
                        [i \in Ids |-> IF i \in reachable THEN Reachable(i) ELSE NoAnswer],
                        abort)

NextPolicy ==
    \/ \E transport \in LoopOutcomes, shuffle \in Shuffles :
           /\ learning_round < MaxRounds
           /\ StartLearningLoop(transport, shuffle)
    \/ StartLearningLoopLater
    \/ StartTask
    \/ \E transport \in LoopOutcomes, shuffle \in Shuffles :
           /\ learning_round < MaxRounds
           /\ KeepLearningAboutNodes(transport, shuffle)
    \/ \E transport \in LoopOutcomes, shuffle \in Shuffles :
           /\ learning_round < MaxRounds
           /\ LearnAboutSpecificNodes(Ids, transport, shuffle)
    \/ \E node \in TeacherNodes : LearnCandidate(node, "match")
    \/ \E shuffle \in Shuffles : FinishRound(shuffle)
    \/ HandleLearningErrors
    \/ CrashGracefully
    \/ LoadSeednodes

SpecPolicy == InitPolicy /\ [][NextPolicy]_vars

\* The loop started with now=False: the seeding pass in the thread pool beside
\* the rounds of the task, which fail or not.
SeedingOutcomes == {"ok", "status_500"}

InitSeeding ==
    \E seeds \in [1..MaxSeeds -> Ids], reachable \in SUBSET Ids, abort \in BOOLEAN :
        ConstructedWith(FALSE, FALSE, <<Fresh(1, 1, TRUE, "good", FALSE)>>, <<"match">>,
                        seeds,
                        [i \in Ids |-> IF i \in reachable THEN Reachable(i) ELSE NoAnswer],
                        abort)

NextSeeding ==
    \/ StartLearningLoopLater
    \/ SeederStart
    \/ \E k \in 1..MaxSeeders : SeederContact(k)
    \/ \E k \in 1..MaxSeeders : SeederRemember(k)
    \/ \E k \in 1..MaxSeeders : SeederEnd(k)
    \/ \E k \in 1..MaxSeeders : SeederErrback(k)
    \/ \E transport \in SeedingOutcomes, shuffle \in Shuffles :
           /\ learning_round < MaxRounds
           /\ KeepLearningAboutNodes(transport, shuffle)
    \/ \E node \in TeacherNodes : LearnCandidate(node, "match")
    \/ \E shuffle \in Shuffles : FinishRound(shuffle)
    \/ HandleLearningErrors
    \/ CrashGracefully

SpecSeeding == InitSeeding /\ [][NextSeeding]_vars

\* The errback of a failed call runs in the same reactor turn, and the reactor
\* makes the calls handed to callFromThread.
SpecLoopFair ==
    SpecLoop /\ WF_vars(HandleLearningErrors) /\ WF_vars(CrashGracefully)

\* The blocking helpers beside a loop that runs and may crash: peers become
\* known, scheduled rounds fail or not, callers block with and without rounds
\* of their own, time passes.
WaitOutcomes == {"ok", "ReadTimeout", "status_500"}

InitWait ==
    \E abort \in BOOLEAN, start_learning_now \in BOOLEAN, n \in 0..MaxInitNodes :
        \E nodes \in [1..n -> {Fresh(1, 1, TRUE, "good", FALSE)}] :
            ConstructedWith(FALSE, start_learning_now, nodes, [i \in 1..n |-> "match"],
                            <<>>, [i \in Ids |-> NoAnswer], abort)

NextWait ==
    \/ \E node \in TeacherNodes : RememberNode(node, FALSE, FALSE, "match")
    \/ \E transport \in WaitOutcomes, shuffle \in Shuffles :
           /\ learning_round < MaxRounds
           /\ KeepLearningAboutNodes(transport, shuffle)
    \/ \E node \in TeacherNodes : LearnCandidate(node, "match")
    \/ \E shuffle \in Shuffles : FinishRound(shuffle)
    \/ HandleLearningErrors
    \/ CrashGracefully
    \/ \E n \in 1..NumIds, timeout \in 0..MaxTimeout, own \in BOOLEAN :
           BlockUntilNumberOfKnownNodesIs(n, timeout, own)
    \/ \E as \in (SUBSET Ids) \ {{}}, timeout \in 0..MaxTimeout,
          allow_missing \in 0..1, own \in BOOLEAN :
           BlockUntilSpecificNodesAreKnown(as, timeout, allow_missing, own)
    \/ \E transport \in WaitOutcomes, shuffle \in Shuffles : Poll(transport, shuffle)
    \/ Resume
    \/ Tick

SpecWait == InitWait /\ [][NextWait]_vars

\* ----------------------------------------------------------- observations
\* The step is one iteration of the loop of the helper a caller is inside, from
\* the head of the loop (Tick alone moves the clock).
PollStep ==
    /\ waiter.op # "None"
    /\ pc = "idle"
    /\ last'.op = waiter.op
    /\ waiter' # [waiter EXCEPT !.elapsed = @ + 1]
    /\ known_nodes' = known_nodes

\* The step ends the call of helper op.
WaitEnds(op) == waiter.op = op /\ waiter'.op = "None"

\* The message of the exception the helper raised in the step.
RaisedMessage == last'.events[1][4]
\* Lines 296-297: the listener.add(address) calls a handler made, in order.
IsNotify(e) == e[1] = "notify"
Notifications(events) == SelectSeq(events, IsNotify)

HasEvent(name) == \E k \in 1..Len(last.events) : last.events[k][1] = name
HasEventNext(name) == \E k \in 1..Len(last'.events) : last'.events[k][1] = name
Verification(outs) ==
    \E k \in 1..Len(last'.events) :
        last'.events[k][1] = "verify_node" /\ last'.events[k][4] \in outs

\* The checksum of a set of records, by ascending address, whatever the order
\* they were inserted in.
CanonicalChecksum(kn) ==
    LET ids == AscendingSeq(Known(kn))
    IN  keccak_digest(Flatten([k \in 1..Len(ids) |-> NodeBytes(kn[ids[k]])]))

\* ------------------------------------------------------------------ claims
\* C1: a record for a stored identity with a timestamp not above the stored one is
\* rejected (False) without any effect: no certificate write, no verification, no
\* change of the records, the checksum, the listeners or the wanted set; one with a
\* greater timestamp that verifies replaces the stored record; and the stored
\* timestamp of an identity never decreases.
C1_LastWriterWins ==
    [][ /\ (last'.op = "remember_node" /\ known_nodes[last'.args.node.id] # NoNode) =>
             LET n == last'.args.node
                 T == known_nodes[n.id].ts
             IN  /\ n.ts <= T =>
                       /\ last'.out = "False"
                       /\ last'.events = <<>>
                       /\ UNCHANGED <<known_nodes, order, checksum, nickname,
                                      learning_listeners, wanted>>
                 /\ (n.ts > T /\ Verification({"None", "True"})) =>
                       /\ NodeBytes(known_nodes'[n.id]) = NodeBytes(n)
                       /\ known_nodes'[n.id].ts > T
        /\ \A a \in AllIds :
             known_nodes[a] # NoNode =>
                 known_nodes'[a] # NoNode /\ known_nodes'[a].ts >= known_nodes[a].ts
      ]_vars

\* An older record arrived after a newer one and was rejected.
C1_Witness ==
    /\ last.op = "remember_node"
    /\ last.out = "False"
    /\ last.args.node.id # SelfId
    /\ last.args.node.sig
    /\ known_nodes[last.args.node.id] # NoNode
    /\ known_nodes[last.args.node.id].ts > last.args.node.ts

\* C2: remember_node on the learner's own record returns False, FleetState does not
\* grow, and the listener registry and the checksum stay as they were.
C2_SelfRejection ==
    [][ (last'.op = "remember_node" /\ last'.args.node.id = SelfId) =>
            /\ last'.out = "False"
            /\ Cardinality(Known(known_nodes')) <= Cardinality(Known(known_nodes))
            /\ UNCHANGED <<learning_listeners, checksum, nickname>>
      ]_vars

\* The learner's own, correctly signed record was offered and turned down.
C2_Witness ==
    /\ last.op = "remember_node"
    /\ last.args.node.id = SelfId
    /\ last.args.node.sig
    /\ last.out = "False"
    /\ Known(known_nodes) # {}

\* C3: once remember_node (called with update_fleet_state left at True) has stored
\* a record, the checksum is the digest of the current records sorted by identity
\* and the nickname is derived from it.
C3_ChecksumNeverStale ==
    (/\ last.op = "remember_node"
     /\ \E k \in 1..Len(last.events) :
           last.events[k][1] = "store" /\ last.events[k][4] = TRUE)
    => /\ checksum = CanonicalChecksum(known_nodes)
       /\ nickname = nickname_from_seed(checksum)

\* C4: the checksum update_fleet_state computes is a function of the set of stored
\* records: it is the digest of the records by ascending identity, whatever the
\* insertion order.
C4_ChecksumDeterminism ==
    last.op = "update_fleet_state" =>
        /\ checksum = CanonicalChecksum(known_nodes)
        /\ nickname = nickname_from_seed(checksum)

\* The checksum was computed over records inserted in descending address order.
C4_Witness ==
    /\ last.op = "update_fleet_state"
    /\ Len(order) > 1
    /\ order[1] > order[2]
    /\ checksum # NO_KNOWN_NODES


\* C5: verify_node without force on a record whose fully-verified flag is already
\* true returns True, leaves every field of the record as it was and sends no
\* node_information request; the same holds for the verification remember_node
\* runs on such a record.
C5_VerificationIdempotence ==
    /\ (last.op = "verify_node" /\ ~last.args.force /\ last.args.node.vn) =>
          /\ last.out = "True"
          /\ known_nodes[last.args.node.id] = last.args.node
          /\ last.cand = last.args.node
          /\ ~HasEvent("node_information")
    /\ (last.op = "remember_node" /\ ~last.args.force /\ last.args.node.vn) =>
          /\ last.cand = last.args.node
          /\ ~HasEvent("node_information")

\* A fully verified stored record was verified again without force.
C5_Witness ==
    /\ last.op = "verify_node"
    /\ ~last.args.force
    /\ last.args.node.vn
    /\ last.out = "True"
    /\ known_nodes[last.args.node.id] = last.args.node

\* A candidate of the round whose live answer differs from its advertisement.
ImpostorStep ==
    /\ last'.op = "learn_from_teacher_node"
    /\ last'.args.step = "candidate"
    /\ ~last'.args.node.vn
    /\ \E k \in 1..Len(last'.events) :
          /\ last'.events[k][1] = "node_information"
          /\ last'.events[k][4] \in LiveMismatches

C7_BadSignatureDropped ==
    (/\ last.op = "learn_from_teacher_node"
     /\ last.args.step = "candidate"
     /\ ~last.args.node.sig)
        => (~HasEvent("store") /\ pc = "learning")

\* C8: once K consecutive completed rounds have admitted no peer, the interval of
\* the learning task is the long one.
C8_AdaptiveBackoff ==
    (/\ last.op = "learn_from_teacher_node"
     /\ last.out = "new_nodes"
     /\ rounds_without_new_nodes >= ROUNDS_WITHOUT_NODES_AFTER_WHICH_TO_SLOW_DOWN)
        => interval = LONG_LEARNING_DELAY

\* C9: the first step of every learn_from_teacher_node call adds exactly one to
\* _learning_round, however the call ends; the later steps of the call leave it
\* alone; and no operation decreases it.
C9_RoundCounting ==
    [][ /\ learning_round' >= learning_round
        /\ (last'.op \in {"learn_from_teacher_node", "learn_about_specific_nodes"}) =>
              learning_round' =
                  IF last'.args.step = "begin" THEN learning_round + 1
                  ELSE learning_round
      ]_vars

\* A round that found no teacher was counted.
C9_Witness ==
    /\ last.op = "learn_from_teacher_node"
    /\ last.args.step = "begin"
    /\ HasEvent("NotEnoughTeachers")
    /\ learning_round = 1

\* C10: a candidate whose stamp, interface or liveness check fails with
\* InvalidNode does not end the round: the loop goes on to the next candidate.
C10_SuspiciousCandidateDoesNotAbort ==
    (/\ last.op = "learn_from_teacher_node"
     /\ last.args.step = "candidate"
     /\ \E k \in 1..Len(last.events) :
           /\ last.events[k][1] \in {"verify_node", "validate_metadata"}
           /\ last.events[k][4] = "InvalidNode")
        => (last.out = "loop" /\ pc = "learning")


\* C11: cycle_teacher_node on an empty queue and a non-empty FleetState leaves
\* the known peers, each once, split into the current teacher and the queue; with
\* no peer known it fails with NotEnoughTeachers and changes nothing; a round
\* entered with no peer known returns without raising, sends no request and
\* leaves FleetState and the queue alone; a round entered once peers are known
\* has a known peer as its teacher and sends it the request.
C11_TeacherSelection ==
    [][ /\ (last'.op = "cycle_teacher_node" /\ teacher_nodes = <<>>) =>
             IF Known(known_nodes) = {}
             THEN /\ last'.out = "NotEnoughTeachers"
                  /\ UNCHANGED <<known_nodes, teacher_nodes, current_teacher_node>>
             ELSE /\ last'.out = "None"
                  /\ current_teacher_node' \in Known(known_nodes)
                  /\ Range(teacher_nodes') = Known(known_nodes) \ {current_teacher_node'}
                  /\ Len(teacher_nodes') = Cardinality(Known(known_nodes)) - 1
        /\ (last'.op = "learn_from_teacher_node" /\ last'.args.step = "begin") =>
             IF Known(known_nodes) = {}
             THEN /\ last'.out = "None"
                  /\ HasEventNext("NotEnoughTeachers")
                  /\ ~HasEventNext("get_nodes_via_rest")
                  /\ UNCHANGED <<known_nodes, order, teacher_nodes, current_teacher_node>>
             ELSE /\ HasEventNext("get_nodes_via_rest")
                  /\ round'.teacher \in Known(known_nodes)
                  /\ current_teacher_node' \in Known(known_nodes)
      ]_vars

\* With every peer known, an empty queue was refilled and one teacher popped.
C11_Witness ==
    /\ last.op = "cycle_teacher_node"
    /\ last.out = "None"
    /\ Known(known_nodes) = Ids
    /\ Len(teacher_nodes) = NumIds - 1
    /\ current_teacher_node \notin Range(teacher_nodes)

\* C12: of two consecutive rounds that each send the peer-list request, the
\* second sends it to another teacher than the first (round holds the previous
\* round until the next one is entered).
C12_TeacherNeverReusedBackToBack ==
    [][ ( /\ last'.op = "learn_from_teacher_node"
          /\ last'.args.step = "begin"
          /\ round.teacher # 0
          /\ round'.teacher # 0 )
        => round'.teacher # round.teacher ]_vars

\* C14: a round whose peer-list request fails in transport (connection error,
\* connect timeout or read timeout) returns without raising, leaves FleetState
\* as it was, notes the teacher as unresponsive and cycles to the next teacher.
C14_TransportFailureRecoverable ==
    [][ ( /\ last'.op = "learn_from_teacher_node"
          /\ last'.args.step = "begin"
          /\ last'.args.transport \in {"ConnectionError", "ConnectTimeout", "ReadTimeout"}
          /\ HasEventNext("get_nodes_via_rest") )
        => /\ last'.out = "None"
           /\ UNCHANGED <<known_nodes, order, checksum>>
           /\ HasEventNext("unresponsive")
           /\ HasEventNext("cycle_teacher_node") ]_vars

\* C15: a round whose peer-list response has a status other than 200 ends with
\* RuntimeError, and FleetState's members, records, order and checksum are then
\* what they were before the round.
C15_BadStatusAbortsRound ==
    [][ ( /\ last'.op = "learn_from_teacher_node"
          /\ last'.args.step = "begin"
          /\ last'.args.transport = "status_500"
          /\ HasEventNext("get_nodes_via_rest") )
        => /\ last'.out = "RuntimeError"
           /\ round'.failure = "RuntimeError"
           /\ UNCHANGED <<known_nodes, order, checksum, nickname>> ]_vars

\* A teacher answered the request with a bad status and the round raised.
C15_Witness ==
    /\ last.op = "learn_from_teacher_node"
    /\ last.args.step = "begin"
    /\ last.args.transport = "status_500"
    /\ HasEvent("get_nodes_via_rest")
    /\ last.out = "RuntimeError"
    /\ Known(known_nodes) # {}

\* C16: when remember_node admits a record for identity X, the listeners
\* registered for X before the call are each handed X, once per registration,
\* the registry then holds nothing for X and the entries of the other
\* identities are what they were; a call that admits nothing notifies nobody
\* and leaves the registry alone.
C16_ListenerFulfilment ==
    [][ last'.op = "remember_node" =>
          LET X == last'.args.node.id
              notes == Notifications(last'.events)
          IN  IF HasEventNext("store")
              THEN /\ Len(notes) = Len(learning_listeners[X])
                   /\ \A k \in 1..Len(notes) :
                         /\ notes[k][3] = X
                         /\ notes[k][4] = learning_listeners[X][k]
                   /\ known_nodes'[X] # NoNode
                   /\ learning_listeners'[X] = <<>>
                   /\ \A a \in AllIds \ {X} :
                         learning_listeners'[a] = learning_listeners[a]
              ELSE /\ notes = <<>>
                   /\ UNCHANGED <<learning_listeners, known_nodes>>
      ]_vars

\* A listener of the admitted identity was notified while another identity
\* still has its listener registered.
C16_Witness ==
    /\ last.op = "remember_node"
    /\ HasEvent("store")
    /\ Notifications(last.events) # <<>>
    /\ learning_listeners[last.args.node.id] = <<>>
    /\ \E a \in Ids : learning_listeners[a] # <<>>

\* C13: a call that cycles the teacher while unresponsive_seed_nodes is not
\* empty contacts every seed of that set again; a seed of the set that answers
\* then leaves the set and is a known node; and no seed is ever contacted more
\* often than retry_attempts times.
C13_SeedRetry ==
    [][ /\ ( /\ unresponsive_seed_nodes # {}
             /\ HasEventNext("cycle_teacher_node")
             /\ seed_answers' = seed_answers )
           => \A s \in unresponsive_seed_nodes :
                 /\ contacts'[s] = contacts[s] + 1
                 /\ (seed_answers[s].status = "200"
                       => /\ s \notin unresponsive_seed_nodes'
                          /\ known_nodes'[s] # NoNode)
        /\ \A s \in Ids : contacts'[s] <= RETRY_ATTEMPTS
      ]_vars

\* C20: the errback of a failed scheduled round, with abort_on_learning_error
\* false, leaves the task running again and hands nothing to the crash
\* facility; with the flag true it leaves the task stopped and hands the failure
\* to _crash_gracefully, which records it on the Learner and raises it again,
\* and the task stays stopped from then on. A failed scheduled round is
\* followed by the one or the other according to the flag alone.
C20_FailurePolicy ==
    /\ [][ (pc = "errback" /\ pc' = "idle") =>
             IF abort_on_learning_error
             THEN /\ ~running'
                  /\ pending'.crash = Append(pending.crash, round.failure)
                  /\ pending'.seeder = pending.seeder
             ELSE /\ running'
                  /\ interval' = SHORT_LEARNING_DELAY
                  /\ pending'.crash = pending.crash
                  /\ crashed' = crashed ]_vars
    /\ [][ Len(pending'.crash) < Len(pending.crash) =>
             /\ crashed' = Head(pending.crash)
             /\ last'.op = "_crash_gracefully"
             /\ last'.out = Head(pending.crash)
             /\ running' = running ]_vars
    /\ [][ (abort_on_learning_error /\ ~running) => ~running' ]_vars
    /\ [][ ~abort_on_learning_error => crashed' = "unset" ]_vars
    /\ (pc = "errback" /\ ~abort_on_learning_error) ~> running
    /\ (pc = "errback" /\ abort_on_learning_error) ~> (crashed # "unset" /\ ~running)

\* Under the resume policy the loop was restarted after a failed round.
C20_Witness ==
    /\ last.op = "handle_learning_errors"
    /\ ~abort_on_learning_error
    /\ running
    /\ pending.seeder
    /\ IsFault(round.failure)

\* C17: block_until_number_of_known_nodes_is returns nothing but True, and True
\* only with at least number_of_nodes_to_know peers in FleetState; when it
\* raises NotEnoughTeachers with the loop running, the timeout has passed with
\* fewer peers known, and the message names the number of peers known, the
\* number wanted and the time.
C17_CountWait ==
    [][ WaitEnds(NUMBER) =>
          /\ last'.args.step = "return" => last'.out = "True"
          /\ last'.out = "True" =>
                Cardinality(Known(known_nodes)) >= waiter.number_of_nodes_to_know
          /\ (last'.out = "NotEnoughTeachers" /\ running) =>
                /\ waiter.elapsed > waiter.timeout
                /\ Cardinality(Known(known_nodes)) < waiter.number_of_nodes_to_know
                /\ {Cardinality(Known(known_nodes)),
                    waiter.number_of_nodes_to_know,
                    waiter.timeout} \subseteq Range(RaisedMessage.args)
      ]_vars

\* C18: block_until_specific_nodes_are_known returns True only with every
\* requested identity in FleetState, and an iteration that finds them all there
\* (no crash recorded) returns True; an unknown identity left, the call ends
\* with False or NotEnoughTeachers only past the timeout, with False exactly
\* when at most allow_missing identities are unknown, and the message of
\* NotEnoughTeachers with the loop running names their number and their set.
C18_SpecificWait ==
    [][ /\ WaitEnds(SPECIFIC) =>
             LET still_unknown == waiter.canonical_addresses \ Known(known_nodes)
             IN  /\ last'.out = "True" => still_unknown = {}
                 /\ last'.out \in {"False", "NotEnoughTeachers"} =>
                       /\ still_unknown # {}
                       /\ waiter.elapsed > waiter.timeout
                       /\ last'.out = "False" <=>
                             Cardinality(still_unknown) <= waiter.allow_missing
                 /\ (last'.out = "NotEnoughTeachers" /\ running) =>
                       /\ RaisedMessage.nodes = still_unknown
                       /\ Cardinality(still_unknown) \in Range(RaisedMessage.args)
        /\ ( /\ PollStep
             /\ waiter.op = SPECIFIC
             /\ crashed = "unset"
             /\ waiter.canonical_addresses \subseteq Known(known_nodes) )
           => (last'.args.step = "return" /\ last'.out = "True")
      ]_vars

\* C19: _crash_gracefully records the failure it is called with; an iteration
\* of either helper made after a failure was recorded returns that failure;
\* and an iteration made before any crash does not fail on reading the record.
C19_CrashObservation ==
    [][ /\ Len(pending'.crash) < Len(pending.crash) => crashed' = Head(pending.crash)
        /\ (PollStep /\ crashed # "unset") =>
              (last'.args.step = "return" /\ last'.out = crashed)
        /\ (PollStep /\ crashed = "unset") =>
              ~(last'.args.step = "raise" /\ last'.out = "AttributeError")
      ]_vars

\* C23: a call of remember_node either returns True with the record stored and
\* the registry emptied for its identity, or it leaves FleetState, the listener
\* registry and the checksum as they were; in particular a call that ends with
\* an error has changed none of them.
C23_UpsertAllOrNothing ==
    [][ last'.op = "remember_node" =>
          LET X == last'.args.node.id
          IN  \/ /\ last'.out = "True"
                 /\ known_nodes'[X] = last'.cand
                 /\ learning_listeners'[X] = <<>>
              \/ /\ last'.out = "False"
                 /\ UNCHANGED <<known_nodes, learning_listeners, checksum>>
              \/ /\ IsFault(last'.out)
                 /\ UNCHANGED <<known_nodes, learning_listeners, checksum>>
      ]_vars

\* C24: in every call of remember_node a certificate write for a record comes
\* after a verify_node of the same record that succeeded, and a call whose
\* verification failed has written no certificate.
C24_CertificateAfterVerification ==
    [][ last'.op = "remember_node" =>
          \A k \in 1..Len(last'.events) :
              last'.events[k][1] = "cert_write" =>
                  \E j \in 1..(k - 1) :
                      /\ last'.events[j][1] = "verify_node"
                      /\ last'.events[j][3] = last'.events[k][3]
                      /\ last'.events[j][4] \in {"None", "True"}
      ]_vars

\* C27: when the node_information request of remember_node fails with a
\* connection error or a read timeout, the call returns False, whether the
\* identity was known or not, and FleetState and the candidate's verification
\* flags are what they were.
C27_TransportFailureOnLivenessContact ==
    [][ (/\ last'.op = "remember_node"
         /\ Verification({"ConnectionError", "ReadTimeout"}))
        => /\ last'.out = "False"
           /\ UNCHANGED known_nodes
           /\ last'.cand.vs = last'.args.node.vs
           /\ last'.cand.vi = last'.args.node.vi
           /\ last'.cand.vn = last'.args.node.vn
      ]_vars

\* C28: once a check of a candidate has failed with InvalidNode in a round, no
\* further verification and no remember_node is made for that candidate in the
\* round.
C28_InvalidIsTerminal ==
    (/\ last.op = "learn_from_teacher_node"
     /\ last.args.step = "candidate")
        => \A k \in 1..Len(last.events) :
               (/\ last.events[k][1] \in {"verify_node", "validate_metadata"}
                /\ last.events[k][4] = "InvalidNode")
               => \A j \in (k + 1)..Len(last.events) :
                      last.events[j][1] \notin
                          {"verify_node", "validate_metadata", "remember_node"}

\* C29: in a round run with eager False no node_information request is made for
\* a candidate, and a candidate with a valid stamp and interface that is new, or
\* newer than the stored record, is in FleetState after its step.
C29_LazyDepthNoLivenessContact ==
    [][ (/\ pc = "learning"
         /\ ~round.eager
         /\ last'.op = "learn_from_teacher_node"
         /\ last'.args.step = "candidate")
        => LET node == last'.args.node
           IN  /\ ~HasEventNext("node_information")
               /\ (/\ node.sig
                   /\ node.ev = "good"
                   /\ node.id # SelfId
                   /\ \/ known_nodes[node.id] = NoNode
                      \/ node.ts > known_nodes[node.id].ts)
                  => /\ known_nodes'[node.id] # NoNode
                     /\ known_nodes'[node.id].ts = node.ts
      ]_vars

\* C30: a candidate step that accepts a newer record of an identity already in
\* FleetState adds nothing to the round's new nodes and the round goes on; a
\* round that ends with no new node adds one to the zero-yield counter and does
\* not set the interval back to the short one.
C30_OnlyNewPeersCountAsYield ==
    [][ (/\ pc = "learning"
         /\ last'.op = "learn_from_teacher_node")
        => /\ (/\ last'.args.step = "candidate"
               /\ known_nodes[last'.args.node.id] # NoNode
               /\ HasEventNext("store"))
              => /\ pc' = "learning"
                 /\ round'.new_nodes = round.new_nodes
           /\ (/\ last'.out = "new_nodes"
               /\ round.new_nodes = <<>>)
              => /\ rounds_without_new_nodes' = rounds_without_new_nodes + 1
                 /\ interval' = interval \/ interval' = LONG_LEARNING_DELAY
      ]_vars

\* C25: over calls of stamp_is_valid, interface_is_valid, validate_metadata and
\* verify_node without force on a node object, each of verified_stamp,
\* verified_interface and the fully-verified flag that was true before the call
\* is true after it.
C25_FlagsMonotonic ==
    [][ (/\ candidate # NoNode
         /\ last'.op \in NodeOps
         /\ ~last'.args.force)
        => /\ candidate.vs => candidate'.vs
           /\ candidate.vi => candidate'.vi
           /\ candidate.vn => candidate'.vn
      ]_vars

\* interface_is_valid was called again on an object whose interface was already
\* verified, and the flag is still set.
C25_Witness ==
    /\ last.op = "interface_is_valid"
    /\ last.args.node.vi
    /\ candidate.vi

\* C26: validate_metadata on a record with a valid interface signature: with no
\* identity evidence it passes when the caller accepts federated-only and the
\* record is federated, and when the caller does not accept it the call fails,
\* with WrongMode for a federated record and InvalidNode for another; with
\* evidence that does not recover to the identity it fails with InvalidNode
\* whatever the mode; with evidence that does, verified_stamp is set.
C26_StampCheckByMode ==
    [][ (/\ candidate # NoNode
         /\ candidate.sig
         /\ last'.op = "validate_metadata")
        => LET accept == last'.args.accept_federated_only
           IN  /\ candidate.ev = "none" =>
                     /\ last'.out = "None" => accept
                     /\ (accept /\ candidate.fed) => last'.out = "None"
                     /\ ~accept => last'.out =
                            (IF candidate.fed THEN "WrongMode" ELSE "InvalidNode")
               /\ candidate.ev = "bad" => last'.out = "InvalidNode"
               /\ candidate.ev = "good" => (last'.out = "None" /\ candidate'.vs)
      ]_vars

\* A federated record without evidence was refused by a caller that does not
\* accept federated-only.
C26_Witness ==
    /\ last.op = "validate_metadata"
    /\ last.args.node.sig
    /\ last.args.node.ev = "none"
    /\ last.args.node.fed
    /\ ~last.args.accept_federated_only
    /\ last.out = "WrongMode"

\* The configuration of the bootstrap scenario: the seeds are S1 and S2, S1
\* answers with its own valid record and S2 refuses the connection.
BootScenario(S1, S2) ==
    /\ S1 # S2
    /\ Range(seed_nodes) = {S1, S2}
    /\ seed_answers[S1] = Reachable(S1)
    /\ seed_answers[S2] = NoAnswer

\* C21: with seeds S1 (reachable) and S2 (unreachable), start_learning_loop
\* called with now=True on an empty FleetState seeds and enters its round
\* without raising, and when the pass has ended S1 is in FleetState, S2 is not,
\* unresponsive_seed_nodes is {S2}, the checksum is not the marker of an empty
\* FleetState and there is a current teacher or a queued one.
C21_BootstrapScenario ==
    [][ \A S1, S2 \in Ids :
          (/\ BootScenario(S1, S2)
           /\ last'.op = "start_learning_loop")
          => /\ (/\ pc = "idle"
                 /\ ~running
                 /\ Known(known_nodes) = {})
                => /\ ~IsFault(last'.out)
                   /\ pc' \in {"learning", "starting"}
             /\ pc' = "starting"
                => /\ S1 \in Known(known_nodes')
                   /\ S2 \notin Known(known_nodes')
                   /\ unresponsive_seed_nodes' = {S2}
                   /\ checksum' # NO_KNOWN_NODES
                   /\ teacher_nodes' # <<>> \/ current_teacher_node' # 0
      ]_vars

\* C22: an identity that is in FleetState before a step of the Learner (seeding,
\* a step of a round with any outcome, a failed verification, an unresponsive
\* teacher, a restart of the loop) is in FleetState after it.
C22_PeersNeverDeleted ==
    [][ \A a \in AllIds : known_nodes[a] # NoNode => known_nodes'[a] # NoNode ]_vars

\* After seeding, a teacher that is in FleetState did not answer the peer-list
\* request, and the identities known are still there.
C22_Witness ==
    /\ last.op = "keep_learning_about_nodes"
    /\ \E k \in 1..Len(last.events) :
          /\ last.events[k][1] = "unresponsive"
          /\ last.events[k][3] \in Known(known_nodes)
    /\ \E s \in Ids : contacts[s] > 0

\* C31: when a round ended with the error of a peer-list response whose status
\* is not 200 and more than one peer is known, the next round that sends the
\* peer-list request sends it to another teacher.
C31_TeacherRotationAfterFault ==
    [][ ( /\ last'.op = "learn_from_teacher_node"
          /\ last'.args.step = "begin"
          /\ round.failure = "RuntimeError"
          /\ round.processed = 0
          /\ round.teacher # 0
          /\ Cardinality(Known(known_nodes)) > 1
          /\ round'.teacher # 0 )
        => round'.teacher # round.teacher ]_vars

\* C35: when verify_node ends with InvalidNode because the answer of the
\* node_information request does not match the record, with or without force,
\* the fully-verified flag of the record is false afterwards.
C35_FailedVerificationClearsFlag ==
    (/\ last.op = "verify_node"
     /\ last.out = "InvalidNode"
     /\ \E k \in 1..Len(last.events) :
           /\ last.events[k][1] = "node_information"
           /\ last.events[k][4] \in LiveMismatches)
        => /\ ~last.cand.vn
           /\ ~known_nodes[last.args.node.id].vn

\* C36: a round that ends where no teacher can be selected, or with a transport
\* failure of the peer-list request, leaves the zero-yield counter and the
\* interval of the task as they were.
C36_EarlyEndsDoNotFeedBackoff ==
    [][ ( /\ last'.op = "learn_from_teacher_node"
          /\ last'.args.step = "begin"
          /\ \/ HasEventNext("NotEnoughTeachers")
             \/ /\ HasEventNext("get_nodes_via_rest")
                /\ last'.args.transport \in
                       {"ConnectionError", "ConnectTimeout", "ReadTimeout"} )
        => UNCHANGED <<rounds_without_new_nodes, interval>> ]_vars

\* A round without yield was counted, and the next round, whose teacher did
\* not answer, left the counter at that.
C36_Witness ==
    /\ last.op = "learn_from_teacher_node"
    /\ last.args.step = "begin"
    /\ HasEvent("unresponsive")
    /\ rounds_without_new_nodes = 1

\* The rounds of the loop: the call start_learning_loop makes itself, those of
\* the task, and those learn_about_nodes_now makes through the task.
LoopRounds == TaskOps \cup {"start_learning_loop"}

C37_AtMostOneLoop ==
    [][ /\ (/\ last'.op = "start_learning_loop"
            /\ last'.args.step = "begin"
            /\ running)
           => /\ last'.out = "False"
              /\ UNCHANGED <<contacts, learning_round, pending, running, interval,
                             pc, known_nodes, done_seeding>>
        /\ (pending'.seeder /\ ~pending.seeder) => ~running
        /\ (last'.op = "load_seednodes" /\ running /\ pending.seeder)
           => ~pending'.seeder
      ]_vars

\* start_learning_loop was called on a running task while a seeding was still
\* deferred.
C37_Witness ==
    /\ last.op = "start_learning_loop"
    /\ last.args.step = "begin"
    /\ last.out = "False"
    /\ running
    /\ pending.seeder

\* C32: a listener whose registration for an identity has been executed has
\* been notified of the identity, or is in the registry under it, or is in the
\* list a remember_node in progress has popped, at a place its loop has yet to
\* reach.
C32_NoListenerLost ==
    \A p \in threads.registered :
        \/ p \in threads.notified
        \/ p[1] \in Range(learning_listeners[p[2]])
        \/ /\ threads.merge.address = p[2]
           /\ \E k \in threads.merge.next..Len(threads.merge.listeners) :
                 threads.merge.listeners[k] = p[1]

\* A seeding pass in the thread pool is before line 230, the discard from
\* unresponsive_seed_nodes; a round of the task is inside its loop, before the
\* cycle_teacher_node of line 629 and its read of the set (374).
SeederAtDiscard == \E k \in 1..Len(threads.seeders) : threads.seeders[k].at = "answered"
RoundBeforeRead == pc = "learning" /\ round.caller \in TaskOps

\* C33: with the loop started with now=False, the seeding thread is never about
\* to mutate unresponsive_seed_nodes while a scheduled round is about to read
\* it, and a round never goes into load_seednodes and contacts a seed while a
\* seeding pass is in progress.
C33_SeedSetTouchedByLoopOnly ==
    [][ /\ ~(SeederAtDiscard /\ RoundBeforeRead)
        /\ (threads.seeders # <<>> /\ (pc' # pc \/ round' # round))
           => contacts' = contacts ]_vars

====
